---- MODULE Spec2Model ----
(***************************************************************************)
(* State-machine model of the HlsPlayer playback controller                *)
(* (src/src/components/Viewport.test.tsx, lines 276-744: the HlsPlayer     *)
(* component source), of the audio store with the keyboard shortcuts, and  *)
(* of the viewport store.                                                  *)
(*                                                                         *)
(* Spec          the player with its engine, timers and manifest fetches   *)
(* OwnerSpec     the player while its owner re-renders it with new props   *)
(* ClassifierSpec  the LIVE / ON_DEMAND classifier on manifest URLs        *)
(* AudioSpec     useAudioStore and the volume keys of useKeyboardShortcuts *)
(* ViewportSpec  useViewportStore                                          *)
(*                                                                         *)
(* React state setters queue a value; the Render action commits the queued *)
(* values (render branch, refs, effects whose dependencies changed).       *)
(* Every handler records in `step` the calls it made, in order.            *)
(***************************************************************************)
EXTENDS Integers, Sequences, FiniteSets, TLC

\* ---------------------------------------------------------------- bounds
\* number of stream-reference changes the owner makes
MaxStreamChanges == 1
\* largest playback position (video.currentTime) the health monitor reads
MaxTime == 1
\* cap of the health monitor's stall counter
MaxFrozen == 1
\* fatal media errors the engine reports over a run
MaxMediaErrors == 4
\* times the buffer of a VOD stream reaches the threshold over a run
MaxVodRuns == 1
\* the same, where only the VOD workaround is exercised
MaxVodSpecRuns == 2

\* parts of a manifest URL handed to the classifier
MaxUrlParts == 3
\* how far beyond [0, 1] a requested volume may lie, in tenths
MaxOvershoot == 3
\* Date.now() / 1000 takes the values 0..MaxClock
MaxClock == 2
\* checkSession calls made
MaxChecks == 2
\* fetch_olympic_streams calls in flight at once
MaxPendingFetches == 2

\* ------------------------------------------------------- program constants
MAX_RECOVERY_ATTEMPTS == 3
\* seconds of buffer the VOD workaround waits for
MinVodBuffer == 10
\* the upper limit 1 of masterVolume, in tenths
FullVolume == 10
\* the 0.1 an arrow key adds or subtracts, in tenths
VolumeStep == 1

\* ----------------------------------------------------------------- values
\* JavaScript null / undefined, as a string distinct from every message
NULL == "<null>"

\* the stream references (stream.stream_url) the owner may pass
Streams == {"streamA", "streamB"}

\* manifest URLs, as the sequence of their parts; 0 stands for null
URLS == << <<"https://x/live.m3u8">>,
           <<"https://x/vod.m3u8?", "startTime=", "0">>,
           <<"https://x/vod.m3u8?", "startTime=", "0", "&", "endTime=", "3600">> >>
UrlIds == 1..Len(URLS)
\* the manifest URLs the resolver returns: a live one and an archive one
ManifestUrlIds == {1, 3}

\* String.prototype.includes, on the parts of a URL
Includes(url, marker) == \E i \in 1..Len(url) : url[i] = marker

\* JavaScript truthiness of a (string | null) value
Truthy(v) == v # NULL /\ v # ""

\* a || b on (string | null) values
OrElse(a, b) == IF Truthy(a) THEN a ELSE b

\* what getStreamManifest may settle with
Messages == {NULL, "", "Stream unavailable"}
Resolved == [kind : {"resolved"}, error_code : {0}, url : ManifestUrlIds,
             message : {NULL}, isError : {FALSE}]
            \cup
            [kind : {"resolved"}, error_code : {500}, url : {1},
             message : Messages, isError : {FALSE}]
Rejected == [kind : {"rejected"}, error_code : {0}, url : {1},
             message : {"", "Network error"}, isError : {TRUE}]
            \cup
            [kind : {"rejected"}, error_code : {0}, url : {1},
             message : {"Unknown error"}, isError : {FALSE}]
Outcomes == Resolved \cup Rejected

\* Hls.isSupported() / video.canPlayType("application/vnd.apple.mpegurl")
Platforms == {"hls", "native", "none"}

\* fatal-error types of the engine (Hls.ErrorTypes)
ErrorTypes == {"networkError", "mediaError", "otherError"}

\* one recorded call of a handler
E(op, id, arg) == [op |-> op, id |-> id, arg |-> arg]

\* does a handler's trace hold a call of op, and how many
HasOp(tr, op) == \E k \in 1..Len(tr) : tr[k].op = op
OpCount(tr, op) == Cardinality({k \in 1..Len(tr) : tr[k].op = op})

\* the closures the owner passes as onLoad / onError / onManifestLoaded: the owner
\* creates them inline, so each of its renders passes closures of a new identity
Callbacks == {"render1", "render2"}

\* props.volume, and the volume of a media element nobody has written yet
Volumes == {"0.5", "1"}
DefaultVolume == "1"

\* videoRef.current: null, or the <video> element React created with muted={!isAudioActive}
NoVideo == [present |-> FALSE, muted |-> FALSE, volume |-> NULL]
NewVideo(a) == [present |-> TRUE, muted |-> ~a, volume |-> DefaultVolume]

VARIABLES
    mounted,                \* the HlsPlayer instance is mounted
    stream,                 \* props.stream.stream_url
    changes,                \* stream-reference changes made so far
    platform,               \* capability of the browser
    fetches,                \* one entry per run of the manifest-fetch effect
    manifestUrl,            \* useState: queued value (0 = null)
    isLoadingManifest,      \* useState: queued value
    manifestError,          \* useState: queued value (NULL = null)
    view,                   \* committed render branch
    shownError,             \* committed text of the error panel
    effUrl,                 \* manifestUrl of the committed render (effect deps)
    sessions,               \* one entry per initializePlayer run that built a player
    hlsRef,                 \* hlsRef.current (0 = null)
    healthCheckIntervalRef, \* healthCheckIntervalRef.current (0 = null)
    videoListenersRef,      \* videoListenersRef.current: sessions with a disposer
    lastPlaybackTimeRef,    \* lastPlaybackTimeRef.current
    frozenCheckCountRef,    \* frozenCheckCountRef.current
    mediaErrors,            \* fatal media errors reported so far
    vodRuns,                \* VOD workaround runs started so far
    step,                   \* the last handler and the calls it made
    isAudioActive,          \* props.isAudioActive of the last render
    volume,                 \* props.volume of the last render
    callbacks,              \* the onLoad / onError / onManifestLoaded closures of the last render
    callbackRefs,           \* onLoadRef / onErrorRef / onManifestLoadedRef .current
    video,                  \* the <video> element videoRef.current points to
    captured,               \* per session: the onLoad its initializePlayer closure captured
    invoked,                \* the owner callback closure the last handler called (NULL = none)
    clsUrl,                 \* classifier: the URL handed to isVodStream
    clsResult,              \* classifier: what isVodStream returned for it
    masterVolume,           \* useAudioStore: masterVolume, in tenths
    hookMasterVolume,       \* useKeyboardShortcuts: masterVolume captured by handleKeyDown
    audioStep,              \* useAudioStore: the last call and its argument
    viewportWithAudioActive, \* useAudioStore: viewportWithAudioActive
    hookViewportCount,      \* useKeyboardShortcuts: viewportCount captured by handleKeyDown
    viewports,              \* useViewportStore: viewports (JS index i is position i + 1)
    selectedViewport,       \* useViewportStore: selectedViewport
    viewportCount,          \* useViewportStore: viewportCount
    viewportStep,           \* useViewportStore: the last call and its arguments
    isAuthenticated,        \* useAuthStore: isAuthenticated
    session,                \* useAuthStore: session (NoSession = null)
    checkCall,              \* useAuthStore: the checkSession call in progress
    authStep,               \* useAuthStore: the last step of checkSession
    streams,                \* useStreamStore: streams
    isLoading,              \* useStreamStore: isLoading
    error,                  \* useStreamStore: error (NULL = null)
    lastUpdated,            \* useStreamStore: lastUpdated (NULL = null)
    pendingFetches,         \* fetch_olympic_streams calls the backend has not settled
    selectorMounted,        \* StreamSelector is mounted
    selectorSession,        \* StreamSelector: the session of its last render
    pollInterval,           \* StreamSelector: the session its live interval captured
    streamStep              \* the last stream-list step and the fetchStreams calls it made

vars == <<mounted, stream, changes, platform, fetches, manifestUrl,
          isLoadingManifest, manifestError, view, shownError, effUrl,
          sessions, hlsRef, healthCheckIntervalRef, videoListenersRef,
          lastPlaybackTimeRef, frozenCheckCountRef, mediaErrors, vodRuns, step,
          isAudioActive, volume, callbacks, callbackRefs, video, captured, invoked,
          clsUrl, clsResult, masterVolume, hookMasterVolume, audioStep,
          viewportWithAudioActive, hookViewportCount,
          viewports, selectedViewport, viewportCount, viewportStep,
          isAuthenticated, session, checkCall, authStep,
          streams, isLoading, error, lastUpdated, pendingFetches,
          selectorMounted, selectorSession, pollInterval, streamStep>>

reactState == <<manifestUrl, isLoadingManifest, manifestError>>
committed == <<view, shownError, effUrl>>
playerRefs == <<sessions, hlsRef, healthCheckIntervalRef, videoListenersRef>>
healthRefs == <<lastPlaybackTimeRef, frozenCheckCountRef>>
props == <<mounted, stream, changes, platform>>
budget == <<mediaErrors, vodRuns>>
ownerProps == <<isAudioActive, volume, callbacks>>
classifierVars == <<clsUrl, clsResult>>
audioVars == <<masterVolume, hookMasterVolume, audioStep,
               viewportWithAudioActive, hookViewportCount>>
authVars == <<isAuthenticated, session, checkCall, authStep>>
streamStoreVars == <<streams, isLoading, error, lastUpdated>>
streamVars == <<streamStoreVars, pendingFetches, selectorMounted, selectorSession,
                pollInterval, streamStep>>
viewportVars == <<viewports, selectedViewport, viewportCount, viewportStep>>
\* what the handlers of a player's engine, timers and fetches never touch
ownerFrame == <<ownerProps, callbackRefs, video, captured>>
stores == <<classifierVars, audioVars, viewportVars, authVars, streamVars>>
playerVars == <<mounted, stream, changes, platform, fetches, manifestUrl,
                isLoadingManifest, manifestError, view, shownError, effUrl,
                sessions, hlsRef, healthCheckIntervalRef, videoListenersRef,
                lastPlaybackTimeRef, frozenCheckCountRef, mediaErrors, vodRuns, step,
                isAudioActive, volume, callbacks, callbackRefs, video, captured, invoked>>

\* ------------------------------------------------------------ classifier
\* faulty variant: one marker is enough
isVodStreamUrlEither(url) == Includes(url, "startTime=") \/ Includes(url, "endTime=")

\* isVodStream on the parts of a URL
isVodStreamUrl(url) == Includes(url, "startTime=") /\ Includes(url, "endTime=")

\* isVodStream on a manifest URL of the player
isVodStream(u) == isVodStreamUrl(URLS[u])

\* ---------------------------------------------------------------- render
\* faulty variant: the loading branch is missing
ViewOfIgnoresLoading(loading, err) ==
    IF Truthy(err) THEN "error" ELSE "video"

\* the branch the component's return statement picks
ViewOf(loading, err) ==
    IF loading THEN "loading"
    ELSE IF Truthy(err) THEN "error"
    ELSE "video"

\* ------------------------------------------------------- manifest fetch
\* the closure of one run of the fetch effect
NoOutcome == [kind |-> "none", error_code |-> 0, url |-> 1, message |-> NULL,
              isError |-> FALSE]
NewFetch(ref) == [ref |-> ref, isCancelled |-> FALSE, settled |-> FALSE,
                  outcome |-> NoOutcome]   \* what a current fetch settled with (less its url)

\* faulty variant: the cancelled flag is not consulted
IsStaleIgnored(f) == FALSE

\* `if (isCancelled) return` after the await and in the catch and finally blocks
IsStale(f) == f.isCancelled

\* the text of a rejection: error instanceof Error ? error.message : fallback
RejectionMessage(o) ==
    IF o.isError THEN o.message ELSE "Failed to fetch stream manifest"

\* faulty variant: the descriptor's message is passed on without the fallback
ErrorCodeMessageRaw(o) == o.message

\* the text of an application-level failure: manifest.message || fallback
ErrorCodeMessage(o) == OrElse(o.message, "Failed to load stream manifest")

\* fetchManifest after the await: the promise of fetch i settles with o
SettleFetch(i, o) ==
    /\ i \in DOMAIN fetches
    /\ ~fetches[i].settled
    /\ fetches' = [fetches EXCEPT ![i].settled = TRUE,
                                  ![i].outcome = IF IsStale(fetches[i]) THEN @
                                                 ELSE [o EXCEPT !.url = 1]]
    /\ UNCHANGED <<props, committed, playerRefs, healthRefs, budget, ownerFrame, stores>>
    /\ invoked' = IF IsStale(fetches[i]) THEN NULL ELSE callbackRefs
    /\ IF IsStale(fetches[i])
       THEN /\ UNCHANGED reactState
            /\ step' = [op |-> "SettleFetch", id |-> i, in |-> "stale", trace |-> <<>>]
       ELSE IF o.kind = "resolved" /\ o.error_code # 0
       THEN /\ manifestError' = ErrorCodeMessage(o)
            /\ isLoadingManifest' = FALSE
            /\ UNCHANGED manifestUrl
            /\ step' = [op |-> "SettleFetch", id |-> i, in |-> "errorCode",
                        trace |-> <<E("setManifestError", i, ErrorCodeMessage(o)),
                                    E("onError", i, ErrorCodeMessage(o)),
                                    E("setIsLoadingManifest", i, "false")>>]
       ELSE IF o.kind = "resolved"
       THEN /\ manifestUrl' = o.url
            /\ isLoadingManifest' = FALSE
            /\ UNCHANGED manifestError
            /\ step' = [op |-> "SettleFetch", id |-> i, in |-> "ok",
                        trace |-> <<E("setManifestUrl", i, NULL),
                                    E("onManifestLoaded", i, NULL),
                                    E("setIsLoadingManifest", i, "false")>>]
       ELSE /\ manifestError' = RejectionMessage(o)
            /\ isLoadingManifest' = FALSE
            /\ UNCHANGED manifestUrl
            /\ step' = [op |-> "SettleFetch", id |-> i,
                        in |-> IF o.isError THEN "rejectedError" ELSE "rejectedOther",
                        trace |-> <<E("setManifestError", i, RejectionMessage(o)),
                                    E("onError", i, RejectionMessage(o)),
                                    E("setIsLoadingManifest", i, "false")>>]

\* cleanup of the fetch effect: isCancelled = true in the current closure
CancelFetch(fs) == [fs EXCEPT ![Len(fs)].isCancelled = TRUE]

\* --------------------------------------------------------------- sessions
\* the player initializePlayer builds: the Hls instance, the variables of its
\* closure, its timers and its listeners on the video element
NewSession(kind, isVod) ==
    [kind |-> kind, isVod |-> isVod,
     alive |-> kind = "hls",          \* the Hls instance is not destroyed
     destroyCalls |-> 0,              \* hls.destroy() calls
     mediaRecoveryAttempts |-> 0,
     seen |-> 0,                      \* fatal media errors the engine reported
     attachPending |-> kind = "hls",  \* MEDIA_ATTACHED is due (attachMedia, recoverMediaError)
     vodStarted |-> FALSE,
     stopLoads |-> 0,                 \* hls.stopLoad() calls since the last MEDIA_ATTACHED
     sought |-> FALSE,                \* the current workaround run has set video.currentTime
     resumed |-> 0,                   \* startLoad() calls of the workaround in the current run
     vodTimeoutId |-> FALSE,          \* the 500 ms timer is pending
     vodFallbackId |-> FALSE,         \* the 2 s timer is pending
     onSeeked |-> 0,                  \* onSeeked listeners on the video element
     playPending |-> 0,               \* play() promises of onSeeked not yet settled
     interval |-> FALSE,              \* the health-check interval is running
     listeners |-> kind = "hls",      \* waiting / stalled / error listeners
     metaPending |-> kind = "native", \* the once-listener for loadedmetadata
     tornDown |-> FALSE]              \* the player effect's cleanup has run

\* faulty variant: the source is handed to the engine before the ERROR listener
\* is registered
HlsInitTraceLoadsFirst(sid, isVod) ==
    <<E("newHls", sid, IF isVod THEN "vod" ELSE "live"),
      E("on", sid, "MEDIA_ATTACHED"),
      E("on", sid, "MANIFEST_PARSED"),
      E("addVideoListeners", sid, NULL)>>
    \o (IF isVod THEN <<E("on", sid, "BUFFER_APPENDED")>>
                 ELSE <<E("setInterval", sid, NULL)>>)
    \o <<E("loadSource", sid, NULL),
         E("on", sid, "ERROR"),
         E("attachMedia", sid, NULL)>>

\* the calls of initializePlayer on the Hls path, in order
HlsInitTrace(sid, isVod) ==
    <<E("newHls", sid, IF isVod THEN "vod" ELSE "live"),
      E("on", sid, "MEDIA_ATTACHED"),
      E("on", sid, "MANIFEST_PARSED"),
      E("addVideoListeners", sid, NULL)>>
    \o (IF isVod THEN <<E("on", sid, "BUFFER_APPENDED")>>
                 ELSE <<E("setInterval", sid, NULL)>>)
    \o <<E("on", sid, "ERROR"),
         E("loadSource", sid, NULL),
         E("attachMedia", sid, NULL)>>

\* faulty variant: the effect finds no video element and returns
initializePlayerNoSink(ss, href, ivl, lst, url, videoMounted) ==
    [sessions |-> ss, hlsRef |-> href, interval |-> ivl,
     listeners |-> lst, resetHealth |-> FALSE, trace |-> <<>>]

\* initializePlayer: [sessions, hlsRef, interval, listeners, resetHealth, trace]
initializePlayer(ss, href, ivl, lst, url, videoMounted) ==
    LET sid == Len(ss) + 1
        isVod == isVodStream(url)
        same == [sessions |-> ss, hlsRef |-> href, interval |-> ivl,
                 listeners |-> lst, resetHealth |-> FALSE, trace |-> <<>>]
    IN  IF ~videoMounted \/ url = 0 THEN same
        ELSE IF platform = "hls"
        THEN [sessions |-> Append(ss, [NewSession("hls", isVod) EXCEPT !.interval = ~isVod]),
              hlsRef |-> sid,
              interval |-> IF isVod THEN ivl ELSE sid,
              listeners |-> Append(lst, sid),
              resetHealth |-> ~isVod,
              trace |-> HlsInitTrace(sid, isVod)]
        ELSE IF platform = "native"
        THEN [same EXCEPT !.sessions = Append(ss, NewSession("native", isVod)),
                          !.trace = <<E("setVideoSrc", sid, NULL),
                                      E("addLoadedMetadataListener", sid, NULL)>>]
        ELSE [same EXCEPT !.trace = <<E("onError", 0, "HLS not supported in this browser")>>]

InSeq(x, s) == \E i \in 1..Len(s) : s[i] = x

\* cleanup of the player effect: [sessions, trace]
CleanupPlayer(ss, href, ivl, lst) ==
    LET s1 == [i \in DOMAIN ss |->
                 IF InSeq(i, lst) THEN [ss[i] EXCEPT !.listeners = FALSE] ELSE ss[i]]
        s2 == IF ivl # 0 THEN [s1 EXCEPT ![ivl].interval = FALSE] ELSE s1
        s3 == IF href # 0
              THEN [s2 EXCEPT ![href].alive = FALSE, ![href].destroyCalls = @ + 1]
              ELSE s2
    IN  [sessions |-> [i \in DOMAIN ss |-> [s3[i] EXCEPT !.tornDown = TRUE]],
         trace |-> [i \in 1..Len(lst) |-> E("removeVideoListeners", lst[i], NULL)]
                   \o (IF ivl # 0 THEN <<E("clearInterval", ivl, NULL)>> ELSE <<>>)
                   \o (IF href # 0 THEN <<E("destroy", href, NULL)>> ELSE <<>>)]

\* ------------------------------------------------------- render and commit
\* faulty variant: the callbacks are dependencies of initializePlayer
PlayerDepsChangedWithCallbacks(rUrl, cb) == rUrl # effUrl \/ cb # callbacks

\* the dependencies of the player effect, [initializePlayer, manifestUrl], changed:
\* initializePlayer is memoized on manifestUrl (and the constant isVodStream)
PlayerDepsChanged(rUrl, cb) == rUrl # effUrl

\* the muted effect's body: if (videoRef.current) videoRef.current.muted = !isAudioActive
MutedEffect(el, a) == IF el.present THEN [el EXCEPT !.muted = ~a] ELSE el

\* faulty variant: the volume effect does not test isAudioActive
VolumeEffectWritesAlways(el, a) == el.present

\* the volume effect's guard: videoRef.current && isAudioActive
VolumeEffectWrites(el, a) == el.present /\ a

\* the <video> element after the render branch is committed: React keeps the
\* element while the video branch stays, updating its muted property, creates a
\* new one when the branch is entered and removes it when the branch is left
CommitVideo(newView, a) ==
    IF newView # "video" THEN NoVideo
    ELSE IF view = "video" /\ video.present THEN [video EXCEPT !.muted = ~a]
    ELSE NewVideo(a)

\* One render of the component with the props `newStream`, `a` (isAudioActive),
\* `v` (volume), `cb` (the callbacks) and the queued state, and its commit: the
\* callback refs, the render branch, then the cleanups of the effects whose
\* dependencies changed (in declaration order), then their bodies.
CommitProps(op, newStream, a, v, cb) ==
    LET rUrl == manifestUrl
        newView == ViewOf(isLoadingManifest, manifestError)
        fetchChanged == newStream # stream
        playerChanged == PlayerDepsChanged(rUrl, cb)
        el0 == CommitVideo(newView, a)
        mutedRuns == a # isAudioActive
        volumeRuns == v # volume \/ a # isAudioActive
        el1 == IF mutedRuns THEN MutedEffect(el0, a) ELSE el0
        el2 == IF volumeRuns /\ VolumeEffectWrites(el1, a)
               THEN [el1 EXCEPT !.volume = v] ELSE el1
        t3 == (IF mutedRuns /\ el0.present
               THEN <<E("setMuted", 0, IF a THEN "false" ELSE "true")>> ELSE <<>>)
              \o (IF volumeRuns /\ VolumeEffectWrites(el1, a)
                  THEN <<E("setVolume", 0, v)>> ELSE <<>>)
        \* cleanups
        fs1 == IF fetchChanged THEN CancelFetch(fetches) ELSE fetches
        t1 == IF fetchChanged THEN <<E("cancelFetch", Len(fetches), NULL)>> ELSE <<>>
        hadCleanup == playerChanged /\ effUrl # 0
        cl == IF hadCleanup
              THEN CleanupPlayer(sessions, hlsRef, healthCheckIntervalRef, videoListenersRef)
              ELSE [sessions |-> sessions, trace |-> <<>>]
        ivl1 == IF hadCleanup THEN 0 ELSE healthCheckIntervalRef
        lst1 == IF hadCleanup THEN <<>> ELSE videoListenersRef
        \* bodies
        t2 == IF fetchChanged
              THEN <<E("setIsLoadingManifest", Len(fetches) + 1, "true"),
                     E("setManifestError", Len(fetches) + 1, NULL),
                     E("setManifestUrl", Len(fetches) + 1, NULL),
                     E("getStreamManifest", Len(fetches) + 1, newStream)>>
              ELSE <<>>
        ini == IF playerChanged /\ rUrl # 0
               THEN initializePlayer(cl.sessions, hlsRef, ivl1, lst1, rUrl, newView = "video")
               ELSE [sessions |-> cl.sessions, hlsRef |-> hlsRef, interval |-> ivl1,
                     listeners |-> lst1, resetHealth |-> FALSE, trace |-> <<>>]
    IN  /\ stream' = newStream
        /\ isAudioActive' = a
        /\ volume' = v
        /\ callbacks' = cb
        /\ callbackRefs' = cb
        /\ video' = el2
        /\ captured' = IF Len(ini.sessions) > Len(sessions)
                       THEN Append(captured, cb) ELSE captured
        /\ invoked' = IF HasOp(ini.trace, "onError") THEN cb ELSE NULL
        /\ UNCHANGED stores
        /\ view' = newView
        /\ shownError' = IF newView = "error" THEN manifestError ELSE NULL
        /\ effUrl' = rUrl
        /\ fetches' = IF fetchChanged THEN Append(fs1, NewFetch(newStream)) ELSE fs1
        /\ IF fetchChanged
           THEN /\ isLoadingManifest' = TRUE
                /\ manifestError' = NULL
                /\ manifestUrl' = 0
           ELSE UNCHANGED reactState
        /\ sessions' = ini.sessions
        /\ hlsRef' = ini.hlsRef
        /\ healthCheckIntervalRef' = ini.interval
        /\ videoListenersRef' = ini.listeners
        /\ IF ini.resetHealth
           THEN /\ lastPlaybackTimeRef' = 0
                /\ frozenCheckCountRef' = 0
           ELSE UNCHANGED healthRefs
        /\ step' = [op |-> op, id |-> 0, in |-> NULL,
                    trace |-> t1 \o cl.trace \o t2 \o ini.trace \o t3]

\* a render with the props of the last render
Commit(op, newStream) == CommitProps(op, newStream, isAudioActive, volume, callbacks)

\* queued state differs from what the committed render showed
RenderPending ==
    /\ mounted
    /\ \/ ViewOf(isLoadingManifest, manifestError) # view
       \/ manifestUrl # effUrl
       \/ shownError # (IF view = "error" THEN manifestError ELSE NULL)

\* React re-renders the component after queued state changed
Render ==
    /\ RenderPending
    /\ Commit("Render", stream)
    /\ UNCHANGED <<mounted, changes, platform, budget>>

\* the owner passes another stream reference
StreamChange(s) ==
    /\ mounted
    /\ s # stream
    /\ changes < MaxStreamChanges
    /\ changes' = changes + 1
    /\ Commit("StreamChange", s)
    /\ UNCHANGED <<mounted, platform, budget>>

\* the owner re-renders the component with the same stream reference and other
\* isAudioActive, volume or callbacks
PropsChange(a, v, cb) ==
    /\ mounted
    /\ <<a, v, cb>> # <<isAudioActive, volume, callbacks>>
    /\ CommitProps("PropsChange", stream, a, v, cb)
    /\ UNCHANGED <<mounted, changes, platform, budget>>

\* the owner unmounts the component: every effect's cleanup runs
Unmount ==
    /\ mounted
    /\ mounted' = FALSE
    /\ LET cl == IF effUrl # 0
                 THEN CleanupPlayer(sessions, hlsRef, healthCheckIntervalRef, videoListenersRef)
                 ELSE [sessions |-> sessions, trace |-> <<>>]
       IN  /\ fetches' = CancelFetch(fetches)
           /\ sessions' = cl.sessions
           /\ healthCheckIntervalRef' = IF effUrl # 0 THEN 0 ELSE healthCheckIntervalRef
           /\ videoListenersRef' = IF effUrl # 0 THEN <<>> ELSE videoListenersRef
           /\ step' = [op |-> "Unmount", id |-> 0, in |-> NULL,
                       trace |-> <<E("cancelFetch", Len(fetches), NULL)>> \o cl.trace]
    /\ view' = "unmounted"
    /\ shownError' = NULL
    /\ video' = NoVideo
    /\ invoked' = NULL
    /\ UNCHANGED <<stream, changes, platform, reactState, effUrl, hlsRef, healthRefs, budget>>
    /\ UNCHANGED <<ownerProps, callbackRefs, captured, stores>>

\* ---------------------------------------------------------- engine events
\* video.buffered as the handlers read it: no range, or one range (in seconds)
Buffered == {[length |-> 0, start |-> 0, end |-> 0]}
            \cup [length : {1}, start : {0, 1}, end : {10, 11}]

\* the engine emits events only to listeners it still has: destroy() removes them
Emits(s) == s \in DOMAIN sessions /\ sessions[s].kind = "hls" /\ sessions[s].alive

\* faulty variant: the handler cancels the settle timer only
AfterMediaAttachedKeepsFallback(sess) ==
    [sess EXCEPT !.attachPending = FALSE, !.vodStarted = FALSE, !.stopLoads = 0,
                 !.sought = FALSE, !.resumed = 0, !.vodTimeoutId = FALSE]

\* the session after the MEDIA_ATTACHED handler: vodStarted = false, both timers
\* cleared and set to null
AfterMediaAttached(sess) ==
    [sess EXCEPT !.attachPending = FALSE, !.vodStarted = FALSE, !.stopLoads = 0,
                 !.sought = FALSE, !.resumed = 0,
                 !.vodTimeoutId = FALSE, !.vodFallbackId = FALSE]

\* the writes and calls of the MEDIA_ATTACHED handler, in statement order
MediaAttachedTrace(sess, s) ==
    <<E("resetVodStarted", s, NULL)>>
    \o (IF sess.vodTimeoutId THEN <<E("clearTimeout", s, "vodTimeoutId")>> ELSE <<>>)
    \o (IF sess.vodFallbackId THEN <<E("clearTimeout", s, "vodFallbackId")>> ELSE <<>>)

\* hls.on(MEDIA_ATTACHED): first attach, and again after recoverMediaError()
MediaAttached(s) ==
    /\ Emits(s)
    /\ sessions[s].attachPending
    /\ sessions' = [sessions EXCEPT ![s] = AfterMediaAttached(@)]
    /\ step' = [op |-> "MediaAttached", id |-> s, in |-> NULL,
                trace |-> MediaAttachedTrace(sessions[s], s)]
    /\ invoked' = NULL
    /\ UNCHANGED <<props, fetches, reactState, committed, hlsRef,
                   healthCheckIntervalRef, videoListenersRef, healthRefs, budget>>
    /\ UNCHANGED <<ownerFrame, stores>>

\* faulty variant: the handler is registered twice, so onLoad is called twice
ManifestParsedTraceTwice(s) == <<E("onLoad", s, NULL), E("onLoad", s, NULL)>>

\* the calls of the MANIFEST_PARSED handler
ManifestParsedTrace(s) == <<E("onLoad", s, NULL)>>

\* hls.on(MANIFEST_PARSED)
ManifestParsed(s) ==
    /\ Emits(s)
    /\ step' = [op |-> "ManifestParsed", id |-> s, in |-> NULL,
                trace |-> ManifestParsedTrace(s)]
    /\ invoked' = callbackRefs
    /\ UNCHANGED <<props, fetches, reactState, committed, playerRefs, healthRefs, budget>>
    /\ UNCHANGED <<ownerFrame, stores>>

\* faulty variant: the handler does not test vodStarted
VodShouldStartAgain(started, b) ==
    b.length > 0 /\ b.end - b.start >= MinVodBuffer

\* the BUFFER_APPENDED handler gets past its three early returns
VodShouldStart(started, b) ==
    ~started /\ b.length > 0 /\ b.end - b.start >= MinVodBuffer

\* hls.on(BUFFER_APPENDED), registered for VOD streams only; the workaround is
\* started at most `runs` times. The engine appends to a buffer only while a media
\* element is attached, so the event follows MEDIA_ATTACHED
BufferAppendedWithin(s, b, runs) ==
    /\ Emits(s)
    /\ sessions[s].isVod
    /\ ~sessions[s].attachPending
    /\ IF ~VodShouldStart(sessions[s].vodStarted, b)
       THEN /\ UNCHANGED <<sessions, vodRuns>>
            /\ step' = [op |-> "BufferAppended", id |-> s, in |-> "wait", trace |-> <<>>,
                        buffered |-> b]
       ELSE /\ vodRuns < runs
            /\ vodRuns' = vodRuns + 1
            /\ sessions' = [sessions EXCEPT ![s].vodStarted = TRUE,
                                            ![s].stopLoads = @ + 1,
                                            ![s].sought = FALSE,
                                            ![s].resumed = 0,
                                            ![s].vodTimeoutId = TRUE]
            /\ step' = [op |-> "BufferAppended", id |-> s, in |-> "start",
                        trace |-> <<E("stopLoad", s, NULL),
                                    E("setTimeout", s, "vodTimeoutId")>>,
                        buffered |-> b]
    /\ invoked' = NULL
    /\ UNCHANGED <<props, fetches, reactState, committed, hlsRef,
                   healthCheckIntervalRef, videoListenersRef, healthRefs, mediaErrors>>
    /\ UNCHANGED <<ownerFrame, stores>>

BufferAppended(s, b) == BufferAppendedWithin(s, b, MaxVodRuns)

\* video.buffered.length > 0 ? video.buffered.start(0) + 0.1 : video.currentTime
SeekTarget(b) == IF b.length > 0 THEN "bufferStart+0.1" ELSE "currentTime"

\* the 500 ms timer of the VOD workaround fires
VodTimeoutFires(s, b) ==
    /\ s \in DOMAIN sessions
    /\ sessions[s].vodTimeoutId
    /\ IF ~sessions[s].vodStarted
       THEN /\ sessions' = [sessions EXCEPT ![s].vodTimeoutId = FALSE]
            /\ step' = [op |-> "VodTimeoutFires", id |-> s, in |-> "reset", trace |-> <<>>]
       ELSE /\ sessions' = [sessions EXCEPT ![s].vodTimeoutId = FALSE,
                                            ![s].sought = TRUE,
                                            ![s].onSeeked = @ + 1,
                                            ![s].vodFallbackId = TRUE]
            /\ step' = [op |-> "VodTimeoutFires", id |-> s, in |-> "seek",
                        trace |-> <<E("seek", s, SeekTarget(b)),
                                    E("addSeekedListener", s, NULL),
                                    E("setTimeout", s, "vodFallbackId")>>,
                        buffered |-> b]
    /\ invoked' = NULL
    /\ UNCHANGED <<props, fetches, reactState, committed, hlsRef,
                   healthCheckIntervalRef, videoListenersRef, healthRefs, budget>>
    /\ UNCHANGED <<ownerFrame, stores>>

\* the video element fires "seeked": every onSeeked listener on it runs
Seeked(s) ==
    /\ s \in DOMAIN sessions
    /\ sessions[s].onSeeked > 0
    /\ sessions' = [sessions EXCEPT ![s].onSeeked = 0,
                                    ![s].playPending = @ + sessions[s].onSeeked]
    /\ step' = [op |-> "Seeked", id |-> s, in |-> NULL,
                trace |-> [i \in 1..(2 * sessions[s].onSeeked) |->
                             IF i % 2 = 1 THEN E("removeSeekedListener", s, NULL)
                                          ELSE E("play", s, NULL)]]
    /\ invoked' = NULL
    /\ UNCHANGED <<props, fetches, reactState, committed, hlsRef,
                   healthCheckIntervalRef, videoListenersRef, healthRefs, budget>>
    /\ UNCHANGED <<ownerFrame, stores>>

\* a play() promise of onSeeked settles: .then and .catch both resume loading
PlaySettles(s, ok) ==
    /\ s \in DOMAIN sessions
    /\ sessions[s].playPending > 0
    /\ sessions' = [sessions EXCEPT ![s].playPending = @ - 1,
                                    ![s].resumed = @ + 1]
    /\ step' = [op |-> "PlaySettles", id |-> s, in |-> IF ok THEN "then" ELSE "catch",
                trace |-> <<E("startLoad", s, "currentTime")>>]
    /\ invoked' = NULL
    /\ UNCHANGED <<props, fetches, reactState, committed, hlsRef,
                   healthCheckIntervalRef, videoListenersRef, healthRefs, budget>>
    /\ UNCHANGED <<ownerFrame, stores>>

\* the 2 s fallback timer of the VOD workaround fires
VodFallbackFires(s, paused) ==
    /\ s \in DOMAIN sessions
    /\ sessions[s].vodFallbackId
    /\ IF ~paused
       THEN /\ sessions' = [sessions EXCEPT ![s].vodFallbackId = FALSE]
            /\ step' = [op |-> "VodFallbackFires", id |-> s, in |-> "playing", trace |-> <<>>]
       ELSE /\ sessions' = [sessions EXCEPT ![s].vodFallbackId = FALSE,
                                            ![s].resumed = @ + 1,
                                            ![s].onSeeked = IF @ > 0 THEN @ - 1 ELSE 0]
            /\ step' = [op |-> "VodFallbackFires", id |-> s, in |-> "paused",
                        trace |-> <<E("removeSeekedListener", s, NULL),
                                    E("play", s, NULL),
                                    E("startLoad", s, "currentTime")>>]
    /\ invoked' = NULL
    /\ UNCHANGED <<props, fetches, reactState, committed, hlsRef,
                   healthCheckIntervalRef, videoListenersRef, healthRefs, budget>>
    /\ UNCHANGED <<ownerFrame, stores>>

\* faulty variant: a changed position is recorded but the counter is not reset
HealthRefsAfterKeepsCount(idle, currentTime, last, count) ==
    IF idle THEN <<last, count>>
    ELSE IF currentTime = last THEN <<last, count + 1>>
    ELSE <<currentTime, count>>

\* <<lastPlaybackTimeRef, frozenCheckCountRef>> after one run of the interval body
HealthRefsAfter(idle, currentTime, last, count) ==
    IF idle THEN <<last, count>>
    ELSE IF currentTime = last THEN <<last, count + 1>>
    ELSE <<currentTime, 0>>

\* the health-check interval fires (LIVE sessions), reading the video element
HealthCheck(s, idle, currentTime) ==
    /\ s \in DOMAIN sessions
    /\ sessions[s].interval
    /\ (~idle /\ currentTime = lastPlaybackTimeRef) => frozenCheckCountRef < MaxFrozen
    /\ lastPlaybackTimeRef' =
           HealthRefsAfter(idle, currentTime, lastPlaybackTimeRef, frozenCheckCountRef)[1]
    /\ frozenCheckCountRef' =
           HealthRefsAfter(idle, currentTime, lastPlaybackTimeRef, frozenCheckCountRef)[2]
    /\ step' = [op |-> "HealthCheck", id |-> s, in |-> IF idle THEN "idle" ELSE "check",
                trace |-> <<>>, time |-> currentTime]
    /\ invoked' = NULL
    /\ UNCHANGED <<props, fetches, reactState, committed, playerRefs, budget>>
    /\ UNCHANGED <<ownerFrame, stores>>

\* data.details of an engine error
Details == {"bufferAppendError", "keySystemNoAccess"}
PlaybackFailed(d) == IF d = "bufferAppendError" THEN "Playback failed: bufferAppendError"
                     ELSE "Playback failed: keySystemNoAccess"
FatalError(d) == IF d = "bufferAppendError" THEN "Fatal error: bufferAppendError"
                 ELSE "Fatal error: keySystemNoAccess"

\* faulty variant: the ceiling is compared with <= instead of <
CanRecoverOffByOne(attempts) == attempts <= MAX_RECOVERY_ATTEMPTS

\* may the handler still answer a fatal media error by recoverMediaError()?
CanRecover(attempts) == attempts < MAX_RECOVERY_ATTEMPTS

\* faulty variant: the NETWORK_ERROR case is missing, so it falls to the default case
ErrorBranchNoNetworkCase(type, fatal) ==
    IF ~fatal THEN "ignored"
    ELSE IF type = "mediaError" THEN "media"
    ELSE "default"

\* faulty variant: the default case resumes loading like the NETWORK_ERROR case
ErrorBranchDefaultResumes(type, fatal) ==
    IF ~fatal THEN "ignored"
    ELSE IF type = "mediaError" THEN "media"
    ELSE "network"

\* faulty variant: the fatal flag is not tested before the switch
ErrorBranchIgnoresFatal(type, fatal) ==
    IF type = "networkError" THEN "network"
    ELSE IF type = "mediaError" THEN "media"
    ELSE "default"

\* `if (data.fatal) switch (data.type)`: the branch an error takes
ErrorBranch(type, fatal) ==
    IF ~fatal THEN "ignored"
    ELSE IF type = "networkError" THEN "network"
    ELSE IF type = "mediaError" THEN "media"
    ELSE "default"

\* faulty variant: terminal errors destroy the engine without calling onError
HandleErrorSilent(sn, s, type, fatal, d) ==
    IF ErrorBranch(type, fatal) = "ignored" THEN [session |-> sn, trace |-> <<>>]
    ELSE IF ErrorBranch(type, fatal) = "network"
    THEN [session |-> sn,
          trace |-> <<E("onError", s, "Network error - trying to recover"),
                      E("startLoad", s, NULL)>>]
    ELSE IF ErrorBranch(type, fatal) = "media" /\ CanRecover(sn.mediaRecoveryAttempts)
    THEN [session |-> [sn EXCEPT !.mediaRecoveryAttempts = @ + 1,
                                 !.attachPending = TRUE],
          trace |-> <<E("recoverMediaError", s, NULL)>>]
    ELSE [session |-> [sn EXCEPT !.alive = FALSE, !.destroyCalls = @ + 1],
          trace |-> <<E("destroy", s, NULL)>>]

\* what hls.on(ERROR) does with an error: [session, trace]
HandleError(sn, s, type, fatal, d) ==
    IF ErrorBranch(type, fatal) = "ignored" THEN [session |-> sn, trace |-> <<>>]
    ELSE IF ErrorBranch(type, fatal) = "network"
    THEN [session |-> sn,
          trace |-> <<E("onError", s, "Network error - trying to recover"),
                      E("startLoad", s, NULL)>>]
    ELSE IF ErrorBranch(type, fatal) = "media"
    THEN IF CanRecover(sn.mediaRecoveryAttempts)
         THEN [session |-> [sn EXCEPT !.mediaRecoveryAttempts = @ + 1,
                                      !.attachPending = TRUE],
               trace |-> <<E("recoverMediaError", s, NULL)>>]
         ELSE [session |-> [sn EXCEPT !.alive = FALSE, !.destroyCalls = @ + 1],
               trace |-> <<E("onError", s, PlaybackFailed(d)), E("destroy", s, NULL)>>]
    ELSE [session |-> [sn EXCEPT !.alive = FALSE, !.destroyCalls = @ + 1],
          trace |-> <<E("onError", s, FatalError(d)), E("destroy", s, NULL)>>]

\* hls.on(ERROR)
HlsError(s, type, fatal, d) ==
    /\ Emits(s)
    /\ IF fatal /\ type = "mediaError"
       THEN mediaErrors < MaxMediaErrors /\ mediaErrors' = mediaErrors + 1
       ELSE UNCHANGED mediaErrors
    /\ LET r == HandleError(sessions[s], s, type, fatal, d)
       IN  /\ sessions' = [sessions EXCEPT
                             ![s] = [r.session EXCEPT !.seen =
                                       IF fatal /\ type = "mediaError" THEN @ + 1 ELSE @]]
           /\ step' = [op |-> "HlsError", id |-> s,
                       in |-> IF fatal THEN type ELSE "nonFatal",
                       trace |-> r.trace]
           /\ invoked' = IF HasOp(r.trace, "onError") THEN callbackRefs ELSE NULL
    /\ UNCHANGED <<props, fetches, reactState, committed, hlsRef,
                   healthCheckIntervalRef, videoListenersRef, healthRefs, vodRuns>>
    /\ UNCHANGED <<ownerFrame, stores>>

\* native playback: the video element fires "loadedmetadata" (a once-listener)
LoadedMetadata(s) ==
    /\ s \in DOMAIN sessions
    /\ sessions[s].metaPending
    /\ sessions' = [sessions EXCEPT ![s].metaPending = FALSE]
    /\ step' = [op |-> "LoadedMetadata", id |-> s, in |-> NULL,
                trace |-> <<E("onLoad", s, NULL)>>]
    /\ invoked' = captured[s]
    /\ UNCHANGED <<props, fetches, reactState, committed, hlsRef,
                   healthCheckIntervalRef, videoListenersRef, healthRefs, budget>>
    /\ UNCHANGED <<ownerFrame, stores>>

\* -------------------------------------------------------------- classifier
\* the parts a manifest URL is made of
UrlParts == {"https://x/a.m3u8?", "startTime=", "endTime=", "startTime", "&"}
ClassifierUrls == UNION {[1..n -> UrlParts] : n \in 0..MaxUrlParts}

\* the class of a stream, as the player logs it: isVod ? ON_DEMAND : LIVE
Classify(url) == IF isVodStreamUrl(url) THEN "ON_DEMAND" ELSE "LIVE"

\* isVodStream is applied to the URL at hand
ClassifyUrl ==
    /\ clsResult = "none"
    /\ clsResult' = Classify(clsUrl)
    /\ UNCHANGED <<clsUrl, playerVars, authVars, streamVars, audioVars, viewportVars>>

\* another URL is at hand
NextUrl(u) ==
    /\ clsResult # "none"
    /\ clsUrl' = u
    /\ clsResult' = "none"
    /\ UNCHANGED <<playerVars, authVars, streamVars, audioVars, viewportVars>>

\* ------------------------------------------------- audio store and keyboard
Min(a, b) == IF a < b THEN a ELSE b
Max(a, b) == IF a > b THEN a ELSE b

\* the volumes a caller may ask for, in tenths
VolumeRequests == (0 - MaxOvershoot)..(FullVolume + MaxOvershoot)

\* faulty variant: only the upper limit is applied
ClampVolumeUpperOnly(v) == Min(FullVolume, v)

\* Math.max(0, Math.min(1, volume))
ClampVolume(v) == Max(0, Min(FullVolume, v))

\* useAudioStore.setMasterVolume(volume), called as `op`
setMasterVolume(op, v) ==
    /\ masterVolume' = ClampVolume(v)
    /\ audioStep' = [op |-> op, arg |-> v]
    /\ UNCHANGED <<viewportWithAudioActive, playerVars, authVars, streamVars, classifierVars, viewportVars>>

\* a direct call of the store's action
DirectSetMasterVolume(v) ==
    /\ setMasterVolume("setMasterVolume", v)
    /\ UNCHANGED <<hookMasterVolume, hookViewportCount>>

\* handleKeyDown for ArrowUp / ArrowDown: the handler adds to the masterVolume
\* its closure captured at the hook's last render
KeyDown(key) ==
    /\ setMasterVolume(key, IF key = "ArrowUp" THEN hookMasterVolume + VolumeStep
                                              ELSE hookMasterVolume - VolumeStep)
    /\ UNCHANGED <<hookMasterVolume, hookViewportCount>>

\* the component using the hook re-renders after the store changed; the effect,
\* which depends on masterVolume, registers a handler with the new value
HookRender ==
    /\ hookMasterVolume # masterVolume
    /\ hookMasterVolume' = masterVolume
    /\ hookViewportCount' = viewportCount
    /\ audioStep' = [op |-> "render", arg |-> masterVolume]
    /\ UNCHANGED <<masterVolume, viewportWithAudioActive, playerVars, authVars, streamVars, classifierVars, viewportVars>>

\* the number keys handleKeyDown reacts to
NumberKeys == 1..4

\* the audio-active index after a number key: parseInt(event.key) - 1 when it is
\* below the viewportCount the handler sees, the index as it was otherwise
AudioAfterNumberKey(active, k, count) == IF k - 1 < count THEN k - 1 ELSE active

\* handleKeyDown for "1".."4": the handler compares with the viewportCount its
\* closure captured when the effect last ran
NumberKey(k) ==
    /\ viewportWithAudioActive' = AudioAfterNumberKey(viewportWithAudioActive, k,
                                                       hookViewportCount)
    /\ audioStep' = [op |-> "NumberKey", arg |-> k]
    /\ UNCHANGED <<masterVolume, hookMasterVolume, hookViewportCount>>
    /\ UNCHANGED <<playerVars, authVars, streamVars, classifierVars, viewportVars>>

\* ----------------------------------------------------------- viewport store
ViewportCounts == {1, 2, 4}
\* the streams and errors the callers of the store pass
ViewportStreams == {"streamA"}
ViewportErrors == {NULL, "Stream error"}

createEmptyViewport(index) ==
    [index |-> index, stream |-> NULL, error |-> NULL, volume |-> 1]

createViewports(count) == [i \in 1..count |-> createEmptyViewport(i - 1)]

\* faulty variant: the error of the viewport is kept
AssignedViewportKeepsError(vp, s) == [vp EXCEPT !.stream = s]

\* { ...viewports[viewportIndex], stream, error: null }
AssignedViewport(vp, s) == [vp EXCEPT !.stream = s, !.error = NULL]

\* assignStream(stream, viewportIndex), for an index of the array
assignStream(s, i) ==
    /\ i + 1 \in DOMAIN viewports
    /\ viewports' = [viewports EXCEPT ![i + 1] = AssignedViewport(@, s)]
    /\ viewportStep' = [op |-> "assignStream", i |-> i, arg |-> s]
    /\ UNCHANGED <<selectedViewport, viewportCount, playerVars, authVars, streamVars, classifierVars, audioVars>>

\* removeStream(viewportIndex), for an index of the array
removeStream(i) ==
    /\ i + 1 \in DOMAIN viewports
    /\ viewports' = [viewports EXCEPT ![i + 1] = createEmptyViewport(i)]
    /\ viewportStep' = [op |-> "removeStream", i |-> i, arg |-> NULL]
    /\ UNCHANGED <<selectedViewport, viewportCount, playerVars, authVars, streamVars, classifierVars, audioVars>>

\* setError(viewportIndex, error), for an index of the array
setError(i, e) ==
    /\ i + 1 \in DOMAIN viewports
    /\ viewports' = [viewports EXCEPT ![i + 1].error = e]
    /\ viewportStep' = [op |-> "setError", i |-> i, arg |-> e]
    /\ UNCHANGED <<selectedViewport, viewportCount, playerVars, authVars, streamVars, classifierVars, audioVars>>

\* setSelectedViewport(index)
setSelectedViewport(i) ==
    /\ selectedViewport' = i
    /\ viewportStep' = [op |-> "setSelectedViewport", i |-> i, arg |-> NULL]
    /\ UNCHANGED <<viewports, viewportCount, playerVars, authVars, streamVars, classifierVars, audioVars>>

\* faulty variant: the selection is not brought back into the new range
NewSelectedViewportKept(sel, count) == sel

\* Math.min(get().selectedViewport, count - 1)
NewSelectedViewport(sel, count) == Min(sel, count - 1)

\* the array setViewportCount builds: the viewports that still exist, re-indexed,
\* and empty ones for the rest
ResizedViewports(cur, count) ==
    [i \in 1..count |-> IF i <= Min(Len(cur), count)
                        THEN [cur[i] EXCEPT !.index = i - 1]
                        ELSE createEmptyViewport(i - 1)]

\* setViewportCount(count)
setViewportCount(count) ==
    /\ viewports' = ResizedViewports(viewports, count)
    /\ viewportCount' = count
    /\ selectedViewport' = NewSelectedViewport(selectedViewport, count)
    /\ viewportStep' = [op |-> "setViewportCount", i |-> 0, arg |-> count]
    /\ UNCHANGED <<playerVars, authVars, streamVars, classifierVars, audioVars>>

\* --------------------------------------------------------------- auth store
\* Date.now() / 1000 as the calls read it, and the sessions the store and the
\* backend may hold
Clock == 0..MaxClock
\* session: null
NoSession == [id |-> NULL, expires_at |-> 0, cookies |-> NULL]
AuthSessions == [id : {"s1", "s2"}, expires_at : 1..MaxClock, cookies : {"cookies"}]

\* what a backend call settles with: a rejection, or its value (a session or null
\* for check_auth_status, nothing for the others)
Reject == [ok |-> FALSE, value |-> NoSession]
Resolve(v) == [ok |-> TRUE, value |-> v]
Nothing == Resolve(NoSession)
AuthOutcomes == {Reject, Nothing} \cup {Resolve(b) : b \in AuthSessions}

\* faulty variant: a session that expires at this very moment still counts
IsExpiredStrict(s, now) == s.expires_at < now

\* the else branches of `expires_at > now`
IsExpired(s, now) == ~(s.expires_at > now)

\* faulty variant: the catch block leaves the store as it is
AfterCatchKeeps(auth, sess) == <<auth, sess>>

\* the catch block: set({ isAuthenticated: false, session: null })
AfterCatch(auth, sess) == <<FALSE, NoSession>>

\* no checkSession call was made yet
\* persisted / now: lines 38 and 42; backend / checkNow: the answer of the direct
\* check_auth_status (line 73) and the Date.now() read after it; clock: the
\* latest time read
NoCheck == [pc |-> "idle", n |-> 0, persisted |-> NoSession, now |-> 0,
            backend |-> NoSession, direct |-> FALSE, checkNow |-> 0, clock |-> 0,
            calls |-> <<>>, caught |-> FALSE]

\* checkSession() up to its first await: the persisted session is read, and
\* restored to the backend when it has not expired
StartCheck(now) ==
    /\ checkCall.pc \in {"idle", "done"}
    /\ checkCall.n < MaxChecks
    /\ now >= checkCall.clock
    /\ checkCall' =
          [pc |-> IF session = NoSession THEN "checking"
                  ELSE IF IsExpired(session, now) THEN "logoutPersisted"
                  ELSE "restoring",
           n |-> checkCall.n + 1, persisted |-> session, now |-> now,
           backend |-> NoSession, direct |-> FALSE, checkNow |-> 0, clock |-> now,
           calls |-> <<IF session = NoSession THEN "check_auth_status"
                       ELSE IF IsExpired(session, now) THEN "logout"
                       ELSE "set_auth_session">>,
           caught |-> FALSE]
    /\ authStep' = [op |-> "checkSession", outcome |-> Nothing]
    /\ UNCHANGED <<isAuthenticated, session>>
    /\ UNCHANGED <<playerVars, classifierVars, audioVars, viewportVars, streamVars>>

\* the backend call checkSession awaits settles with o; `now` is what Date.now()
\* gives where the continuation reads it
SettleCheck(o, now) ==
    /\ checkCall.pc \notin {"idle", "done"}
    /\ now >= checkCall.clock
    /\ o.value # NoSession => checkCall.pc \in {"verifying", "checking"}
    /\ LET pc == checkCall.pc
           done(c) == [c EXCEPT !.pc = "done", !.clock = now]
           call(c, to, name) == [c EXCEPT !.pc = to, !.calls = Append(@, name),
                                          !.clock = now]
       IN  IF ~o.ok
           THEN /\ checkCall' = done([checkCall EXCEPT !.caught = TRUE])
                /\ isAuthenticated' = AfterCatch(isAuthenticated, session)[1]
                /\ session' = AfterCatch(isAuthenticated, session)[2]
           ELSE IF pc = "restoring"
           THEN /\ checkCall' = call(checkCall, "verifying", "check_auth_status")
                /\ UNCHANGED <<isAuthenticated, session>>
           ELSE IF pc = "verifying"
           THEN IF o.value # NoSession
                THEN /\ checkCall' = done([checkCall EXCEPT !.backend = o.value])
                     /\ isAuthenticated' = TRUE
                     /\ session' = checkCall.persisted
                ELSE /\ checkCall' = call(checkCall, "checking", "check_auth_status")
                     /\ UNCHANGED <<isAuthenticated, session>>
           ELSE IF pc = "checking"
           THEN LET c == [checkCall EXCEPT !.backend = o.value, !.direct = TRUE,
                                           !.checkNow = now]
                IN  IF o.value = NoSession
                    THEN /\ checkCall' = done(c)
                         /\ UNCHANGED <<isAuthenticated, session>>
                    ELSE IF IsExpired(o.value, now)
                    THEN /\ checkCall' = call(c, "logoutBackend", "logout")
                         /\ UNCHANGED <<isAuthenticated, session>>
                    ELSE /\ checkCall' = done(c)
                         /\ isAuthenticated' = TRUE
                         /\ session' = o.value
           ELSE /\ checkCall' = done(checkCall)
                /\ isAuthenticated' = FALSE
                /\ session' = NoSession
    /\ authStep' = [op |-> checkCall.pc, outcome |-> o]
    /\ UNCHANGED <<playerVars, classifierVars, audioVars, viewportVars, streamVars>>

\* login(session): the store is written once set_auth_session resolved; a
\* rejection leaves the call's promise rejected and the store as it was
LoginSettles(sess, ok) ==
    /\ isAuthenticated' = IF ok THEN TRUE ELSE isAuthenticated
    /\ session' = IF ok THEN sess ELSE session
    /\ authStep' = [op |-> "login", outcome |-> IF ok THEN Resolve(sess) ELSE Reject]
    /\ UNCHANGED checkCall
    /\ UNCHANGED <<playerVars, classifierVars, audioVars, viewportVars, streamVars>>

\* faulty variant: logout clears the flag and keeps the session
AfterLogoutKeepsSession(auth, sess) == <<FALSE, sess>>

\* set({ isAuthenticated: false, session: null }) of logout
AfterLogout(auth, sess) == <<FALSE, NoSession>>

\* logout(): the store is cleared once the backend's logout resolved
LogoutSettles(ok) ==
    /\ isAuthenticated' = IF ok THEN AfterLogout(isAuthenticated, session)[1]
                                ELSE isAuthenticated
    /\ session' = IF ok THEN AfterLogout(isAuthenticated, session)[2] ELSE session
    /\ authStep' = [op |-> "logout", outcome |-> IF ok THEN Nothing ELSE Reject]
    /\ UNCHANGED checkCall
    /\ UNCHANGED <<playerVars, classifierVars, audioVars, viewportVars, streamVars>>

\* ------------------------------------------- stream store and StreamSelector
\* the lists fetch_olympic_streams resolves with ("none" is the initial []), what
\* it rejects with, and the values of new Date()
StreamLists == {"listA", "listB"}
StreamRejections == {[isError |-> TRUE, message |-> "Network error"],
                     [isError |-> FALSE, message |-> "boom"]}
Dates == {"date1", "date2"}

\* the sessions useAuthStore hands to StreamSelector
SelectorSessions ==
    {NoSession} \cup [id : {"s1", "s2"}, expires_at : {MaxClock}, cookies : {NULL, "cookies"}]

\* error instanceof Error ? error.message : "Failed to fetch streams"
FetchStreamsError(r) == IF r.isError THEN r.message ELSE "Failed to fetch streams"

\* faulty variant: the effect polls whatever the session is
PollsForAnySession(sess) == TRUE

\* the effect's condition: session?.cookies
PollsFor(sess) == sess # NoSession /\ sess.cookies # NULL

\* fetchStreams(cookies) up to its await: set({ isLoading: true, error: null })
\* and the backend call
fetchStreams ==
    /\ pendingFetches < MaxPendingFetches
    /\ isLoading' = TRUE
    /\ error' = NULL
    /\ pendingFetches' = pendingFetches + 1
    /\ UNCHANGED <<streams, lastUpdated>>

\* the polling effect runs for the session of a render: its cleanup clears the
\* interval of the run before, its body fetches and sets a new interval
SelectorEffect(op, sess) ==
    /\ selectorSession' = sess
    /\ IF PollsFor(sess)
       THEN /\ fetchStreams
            /\ pollInterval' = sess
            /\ streamStep' = [op |-> op, calls |-> 1, arg |-> NULL]
       ELSE /\ pollInterval' = NoSession
            /\ streamStep' = [op |-> op, calls |-> 0, arg |-> NULL]
            /\ UNCHANGED <<streamStoreVars, pendingFetches>>

\* StreamSelector re-renders with another session
SelectorRender(sess) ==
    /\ selectorMounted
    /\ sess # selectorSession
    /\ SelectorEffect("render", sess)
    /\ UNCHANGED selectorMounted
    /\ UNCHANGED <<playerVars, classifierVars, audioVars, viewportVars, authVars>>

\* the 120000 ms interval fires
IntervalTick ==
    /\ pollInterval # NoSession
    /\ fetchStreams
    /\ streamStep' = [op |-> "interval", calls |-> 1, arg |-> NULL]
    /\ UNCHANGED <<selectorMounted, selectorSession, pollInterval>>
    /\ UNCHANGED <<playerVars, classifierVars, audioVars, viewportVars, authVars>>

\* StreamSelector unmounts: the effect's cleanup runs
SelectorUnmount ==
    /\ selectorMounted
    /\ selectorMounted' = FALSE
    /\ pollInterval' = NoSession
    /\ streamStep' = [op |-> "unmount", calls |-> 0, arg |-> NULL]
    /\ UNCHANGED <<streamStoreVars, pendingFetches, selectorSession>>
    /\ UNCHANGED <<playerVars, classifierVars, audioVars, viewportVars, authVars>>

\* a fetch_olympic_streams call resolves with a list; d is what new Date() gives
FetchResolves(list, d) ==
    /\ pendingFetches > 0
    /\ pendingFetches' = pendingFetches - 1
    /\ streams' = list
    /\ lastUpdated' = d
    /\ isLoading' = FALSE
    /\ streamStep' = [op |-> "resolve", calls |-> 0, arg |-> <<list, d>>]
    /\ UNCHANGED <<error, selectorMounted, selectorSession, pollInterval>>
    /\ UNCHANGED <<playerVars, classifierVars, audioVars, viewportVars, authVars>>

\* a fetch_olympic_streams call rejects with r
FetchRejects(r) ==
    /\ pendingFetches > 0
    /\ pendingFetches' = pendingFetches - 1
    /\ error' = FetchStreamsError(r)
    /\ isLoading' = FALSE
    /\ streamStep' = [op |-> "reject", calls |-> 0, arg |-> r]
    /\ UNCHANGED <<streams, lastUpdated, selectorMounted, selectorSession, pollInterval>>
    /\ UNCHANGED <<playerVars, classifierVars, audioVars, viewportVars, authVars>>

\* ---------------------------------------------------------- specification
\* the stores before any call: the viewport store as created, or as rehydrated
\* (only viewportCount is persisted); the audio store with a persisted volume
ClassifierIdle ==
    /\ clsUrl = <<>>
    /\ clsResult = "none"

AudioIdle ==
    /\ masterVolume = FullVolume
    /\ hookMasterVolume = FullVolume
    /\ audioStep = [op |-> "create", arg |-> FullVolume]
    /\ viewportWithAudioActive = 0
    /\ hookViewportCount = viewportCount

ViewportIdle ==
    /\ viewports = createViewports(4)
    /\ selectedViewport = 0
    /\ viewportCount = 4
    /\ viewportStep = [op |-> "create", i |-> 0, arg |-> NULL]

\* the auth store as created, no checkSession call made
AuthIdle ==
    /\ isAuthenticated = FALSE
    /\ session = NoSession
    /\ checkCall = NoCheck
    /\ authStep = [op |-> "create", outcome |-> Nothing]

\* the stream store as created, StreamSelector mounted without a session
StreamsIdle ==
    /\ streams = "none"
    /\ isLoading = FALSE
    /\ error = NULL
    /\ lastUpdated = NULL
    /\ pendingFetches = 0
    /\ selectorMounted = TRUE
    /\ selectorSession = NoSession
    /\ pollInterval = NoSession
    /\ streamStep = [op |-> "mount", calls |-> 0, arg |-> NULL]

StoresInit == ClassifierIdle /\ ViewportIdle /\ AudioIdle /\ AuthIdle /\ StreamsIdle

\* the component after its first render and commit: the fetch effect has run
PlayerInit ==
    /\ mounted = TRUE
    /\ stream = "streamA"
    /\ changes = 0
    /\ platform \in Platforms
    /\ fetches = <<NewFetch("streamA")>>
    /\ manifestUrl = 0
    /\ isLoadingManifest = TRUE
    /\ manifestError = NULL
    /\ view = "loading"
    /\ shownError = NULL
    /\ effUrl = 0
    /\ sessions = <<>>
    /\ hlsRef = 0
    /\ healthCheckIntervalRef = 0
    /\ videoListenersRef = <<>>
    /\ lastPlaybackTimeRef = 0
    /\ frozenCheckCountRef = 0
    /\ mediaErrors = 0
    /\ vodRuns = 0
    /\ step = [op |-> "Mount", id |-> 0, in |-> NULL,
               trace |-> <<E("setIsLoadingManifest", 1, "true"),
                           E("setManifestError", 1, NULL),
                           E("setManifestUrl", 1, NULL),
                           E("getStreamManifest", 1, "streamA")>>]
    /\ callbacks = "render1"
    /\ callbackRefs = "render1"
    /\ video = NoVideo
    /\ captured = <<>>
    /\ invoked = NULL

\* the player of an owner that passes the same audio props throughout
Init ==
    /\ PlayerInit
    /\ isAudioActive = TRUE
    /\ volume = DefaultVolume
    /\ StoresInit

\* a session is built only after a manifest fetch succeeded
Sids == 1..(MaxStreamChanges + 1)

Next ==
    \/ \E i \in 1..(MaxStreamChanges + 1), o \in Outcomes : SettleFetch(i, o)
    \/ Render
    \/ \E s \in Streams : StreamChange(s)
    \/ Unmount
    \/ \E s \in Sids : MediaAttached(s)
    \/ \E s \in Sids : ManifestParsed(s)
    \/ \E s \in Sids, b \in Buffered : BufferAppended(s, b)
    \/ \E s \in Sids, b \in Buffered : VodTimeoutFires(s, b)
    \/ \E s \in Sids : Seeked(s)
    \/ \E s \in Sids, ok \in BOOLEAN : PlaySettles(s, ok)
    \/ \E s \in Sids, paused \in BOOLEAN : VodFallbackFires(s, paused)
    \/ \E s \in Sids, idle \in BOOLEAN, t \in 0..MaxTime : HealthCheck(s, idle, t)
    \/ \E s \in Sids, type \in ErrorTypes, fatal \in BOOLEAN, d \in Details :
           HlsError(s, type, fatal, d)
    \/ \E s \in Sids : LoadedMetadata(s)

Spec == Init /\ [][Next]_vars

\* the player of an owner that re-renders it with other props; of the engine's
\* events those that call back to the owner
OwnerInit ==
    /\ PlayerInit
    /\ isAudioActive \in BOOLEAN
    /\ volume \in Volumes
    /\ StoresInit

OwnerNext ==
    \/ \E i \in 1..(MaxStreamChanges + 1), o \in Outcomes : SettleFetch(i, o)
    \/ Render
    \/ \E s \in Streams : StreamChange(s)
    \/ \E a \in BOOLEAN, v \in Volumes, cb \in Callbacks : PropsChange(a, v, cb)
    \/ Unmount
    \/ \E s \in Sids : ManifestParsed(s)
    \/ \E s \in Sids, type \in {"networkError", "otherError"} :
           HlsError(s, type, TRUE, "bufferAppendError")
    \/ \E s \in Sids : LoadedMetadata(s)

OwnerSpec == OwnerInit /\ [][OwnerNext]_vars

\* the same player with a fair scheduler: a render React has scheduled is
\* eventually performed
ReadySpec == OwnerInit /\ [][OwnerNext]_vars /\ WF_vars(Render)

\* the player on a browser with MSE, where the engine's events, the timers of the
\* VOD workaround and fatal media errors (answered by recoverMediaError, hence by
\* another MEDIA_ATTACHED) are exercised
VodInit ==
    /\ PlayerInit
    /\ platform = "hls"
    /\ isAudioActive = TRUE
    /\ volume = DefaultVolume
    /\ StoresInit

VodNext ==
    \/ \E o \in Outcomes : SettleFetch(1, o)
    \/ Render
    \/ Unmount
    \/ MediaAttached(1)
    \/ \E b \in Buffered : BufferAppendedWithin(1, b, MaxVodSpecRuns)
    \/ \E b \in Buffered : VodTimeoutFires(1, b)
    \/ Seeked(1)
    \/ \E ok \in BOOLEAN : PlaySettles(1, ok)
    \/ \E paused \in BOOLEAN : VodFallbackFires(1, paused)
    \/ \E d \in Details : HlsError(1, "mediaError", TRUE, d)

VodSpec == VodInit /\ [][VodNext]_vars

\* the same player where a pending timer fires and a pending play() promise
\* settles; the seeked event, errors and React's work are not forced
VodFairSpec ==
    /\ VodInit
    /\ [][VodNext]_vars
    /\ WF_vars(\E b \in Buffered : VodTimeoutFires(1, b))
    /\ WF_vars(\E paused \in BOOLEAN : VodFallbackFires(1, paused))
    /\ WF_vars(\E ok \in BOOLEAN : PlaySettles(1, ok))

\* a player that is left alone while the stores are exercised
PlayerIdle ==
    /\ PlayerInit
    /\ platform = "hls"
    /\ isAudioActive = TRUE
    /\ volume = DefaultVolume

ClassifierInit ==
    /\ PlayerIdle
    /\ ViewportIdle
    /\ AudioIdle
    /\ AuthIdle
    /\ StreamsIdle
    /\ clsUrl \in ClassifierUrls
    /\ clsResult = "none"

ClassifierNext ==
    \/ ClassifyUrl
    \/ \E u \in ClassifierUrls : NextUrl(u)

ClassifierSpec == ClassifierInit /\ [][ClassifierNext]_vars

AudioInit ==
    /\ PlayerIdle
    /\ ClassifierIdle
    /\ ViewportIdle
    /\ AuthIdle
    /\ StreamsIdle
    /\ masterVolume \in 0..FullVolume
    /\ hookMasterVolume = masterVolume
    /\ audioStep = [op |-> "create", arg |-> masterVolume]
    /\ viewportWithAudioActive = 0
    /\ hookViewportCount = viewportCount

AudioNext ==
    \/ \E v \in VolumeRequests : DirectSetMasterVolume(v)
    \/ \E key \in {"ArrowUp", "ArrowDown"} : KeyDown(key)
    \/ HookRender

AudioSpec == AudioInit /\ [][AudioNext]_vars

ViewportInit ==
    /\ PlayerIdle
    /\ ClassifierIdle
    /\ AuthIdle
    /\ StreamsIdle
    /\ viewports = createViewports(4)
    /\ selectedViewport = 0
    /\ viewportCount \in ViewportCounts
    /\ viewportStep = [op |-> "create", i |-> 0, arg |-> NULL]
    /\ AudioIdle

ViewportNext ==
    \/ \E s \in ViewportStreams, i \in 0..3 : assignStream(s, i)
    \/ \E i \in 0..3 : removeStream(i)
    \/ \E i \in 0..3, e \in ViewportErrors : setError(i, e)
    \/ \E i \in 0..3 : setSelectedViewport(i)
    \/ \E c \in ViewportCounts : setViewportCount(c)

ViewportSpec == ViewportInit /\ [][ViewportNext]_vars

\* the keyboard shortcuts while the layout changes: the hook's first render saw
\* the stores as rehydrated
KeyboardInit == ViewportInit

KeyboardNext ==
    \/ \E k \in NumberKeys : NumberKey(k)
    \/ \E key \in {"ArrowUp", "ArrowDown"} : KeyDown(key)
    \/ HookRender
    \/ \E c \in ViewportCounts : setViewportCount(c)

KeyboardSpec == KeyboardInit /\ [][KeyboardNext]_vars

\* the auth store as rehydrated from "auth-storage", then checkSession, login and
\* logout calls
AuthInit ==
    /\ PlayerIdle
    /\ ClassifierIdle
    /\ ViewportIdle
    /\ AudioIdle
    /\ StreamsIdle
    /\ session \in {NoSession} \cup AuthSessions
    /\ isAuthenticated = (session # NoSession)
    /\ checkCall = NoCheck
    /\ authStep = [op |-> "create", outcome |-> Nothing]

AuthNext ==
    \/ \E now \in Clock : StartCheck(now)
    \/ \E o \in AuthOutcomes, now \in Clock : SettleCheck(o, now)
    \/ \E sess \in AuthSessions, ok \in BOOLEAN : LoginSettles(sess, ok)
    \/ \E ok \in BOOLEAN : LogoutSettles(ok)

AuthSpec == AuthInit /\ [][AuthNext]_vars

\* StreamSelector after its first commit, with the session the auth store held,
\* then the renders, timers and backend answers that follow
StreamsInit ==
    /\ PlayerIdle
    /\ ClassifierIdle
    /\ ViewportIdle
    /\ AudioIdle
    /\ AuthIdle
    /\ streams = "none"
    /\ lastUpdated = NULL
    /\ error = NULL
    /\ selectorMounted = TRUE
    /\ selectorSession \in SelectorSessions
    /\ isLoading = PollsFor(selectorSession)
    /\ pendingFetches = IF PollsFor(selectorSession) THEN 1 ELSE 0
    /\ pollInterval = IF PollsFor(selectorSession) THEN selectorSession ELSE NoSession
    /\ streamStep = [op |-> "mount", calls |-> pendingFetches, arg |-> NULL]

StreamsNext ==
    \/ \E sess \in SelectorSessions : SelectorRender(sess)
    \/ IntervalTick
    \/ SelectorUnmount
    \/ \E list \in StreamLists, d \in Dates : FetchResolves(list, d)
    \/ \E r \in StreamRejections : FetchRejects(r)

StreamsSpec == StreamsInit /\ [][StreamsNext]_vars

\* ------------------------------------------------------------ properties
\* the fetch of the current stream reference
Cur == fetches[Len(fetches)]

\* C1: when the resolution of a stream reference that is no longer current (the
\* reference changed or the player unmounted while it was in flight) settles, with
\* whatever outcome, manifestUrl, isLoadingManifest and manifestError are not written
\* and no owner callback is invoked.
C1_StaleSettlementIsDiscarded ==
    [][\A i \in DOMAIN fetches :
          (fetches[i].isCancelled /\ ~fetches[i].settled /\ fetches'[i].settled)
              => /\ manifestUrl' = manifestUrl
                 /\ isLoadingManifest' = isLoadingManifest
                 /\ manifestError' = manifestError
                 /\ step'.trace = <<>>]_vars

\* A's resolution settled after B became current and after B's own settlement
C1_Witness ==
    /\ Len(fetches) = 2
    /\ fetches[2].settled
    /\ step.op = "SettleFetch" /\ step.id = 1 /\ step.in = "stale"

\* a session still holds something: its engine, a timer or a listener
SessionActive(s) ==
    /\ sessions[s].kind = "hls"
    /\ \/ sessions[s].alive
       \/ sessions[s].interval
       \/ sessions[s].listeners
       \/ sessions[s].vodTimeoutId
       \/ sessions[s].vodFallbackId
       \/ sessions[s].onSeeked > 0

\* C2: at most one playback session (engine, timers, listeners) is active at any
\* time: a new session is started only after the previous one is fully torn down.
C2_AtMostOneActiveSession ==
    Cardinality({s \in DOMAIN sessions : SessionActive(s)}) <= 1

\* C3: after the teardown of a session (unmount or stream change) its engine is
\* destroyed, its health-check interval and its VOD-workaround timers are cleared,
\* and none of its timer or listener callbacks runs any more.
C3_TeardownReleasesEverything ==
    \A s \in DOMAIN sessions :
        (sessions[s].kind = "hls" /\ sessions[s].tornDown) =>
            /\ ~sessions[s].alive
            /\ sessions[s].destroyCalls >= 1
            /\ ~sessions[s].interval
            /\ ~sessions[s].vodTimeoutId
            /\ ~sessions[s].vodFallbackId
            /\ ~(/\ step.id = s
                 /\ step.op \in {"VodTimeoutFires", "VodFallbackFires", "Seeked",
                                 "PlaySettles", "HealthCheck"})

\* C4: in a session the first three fatal media errors are answered by
\* recoverMediaError(); the fourth is answered by onError and destroy(), never by
\* a fourth recovery.
C4_MediaRecoveryCeiling ==
    \A s \in DOMAIN sessions :
        /\ sessions[s].mediaRecoveryAttempts <= 3
        /\ (step.op = "HlsError" /\ step.id = s /\ step.in = "mediaError") =>
              IF sessions[s].seen <= 3
              THEN /\ step.trace = <<E("recoverMediaError", s, NULL)>>
                   /\ sessions[s].alive
              ELSE /\ ~HasOp(step.trace, "recoverMediaError")
                   /\ HasOp(step.trace, "onError")
                   /\ HasOp(step.trace, "destroy")
                   /\ ~sessions[s].alive

\* the fourth fatal media error of a session has just been handled
C4_Witness ==
    /\ step.op = "HlsError" /\ step.in = "mediaError"
    /\ sessions[step.id].seen = 4
    /\ ~sessions[step.id].alive

\* C5: a fatal network error is answered by startLoad() and a recoverable-error
\* notice to the owner; the engine is not destroyed and the session is not torn down.
C5_NetworkErrorResumes ==
    (step.op = "HlsError" /\ step.in = "networkError") =>
        /\ HasOp(step.trace, "startLoad")
        /\ \E k \in 1..Len(step.trace) :
               step.trace[k] = E("onError", step.id, "Network error - trying to recover")
        /\ ~HasOp(step.trace, "destroy")
        /\ sessions[step.id].alive
        /\ sessions[step.id].destroyCalls = 0
        /\ ~sessions[step.id].tornDown

\* a fatal network error handled after the media-recovery budget was used up
C5_Witness ==
    /\ step.op = "HlsError" /\ step.in = "networkError"
    /\ sessions[step.id].mediaRecoveryAttempts = 3

\* C6: a fatal error that is neither a network nor a media error is answered by
\* onError and destroy(), with no startLoad() and no recoverMediaError().
C6_OtherFatalErrorIsTerminal ==
    (step.op = "HlsError" /\ step.in = "otherError") =>
        /\ OpCount(step.trace, "onError") = 1
        /\ \A k \in 1..Len(step.trace) :
               step.trace[k].op = "onError" => Truthy(step.trace[k].arg)
        /\ HasOp(step.trace, "destroy")
        /\ ~HasOp(step.trace, "startLoad")
        /\ ~HasOp(step.trace, "recoverMediaError")
        /\ ~sessions[step.id].alive
        /\ sessions[step.id].mediaRecoveryAttempts = sessions[step.id].seen

\* such an error handled by a session that had never failed before
C6_Witness ==
    /\ step.op = "HlsError" /\ step.in = "otherError"
    /\ sessions[step.id].mediaRecoveryAttempts = 0
    /\ ~sessions[step.id].alive

\* C7: a non-fatal engine error leaves the session as it was and makes no call:
\* no onError, no destroy(), no startLoad(), no recoverMediaError().
C7_NonFatalErrorIsSilent ==
    [][(step'.op = "HlsError" /\ step'.in = "nonFatal")
          => (sessions' = sessions /\ step'.trace = <<>>)]_vars

\* a non-fatal error was reported to a live session
C7_Witness ==
    /\ step.op = "HlsError" /\ step.in = "nonFatal"
    /\ sessions[step.id].alive

\* an engine that a terminal playback error destroyed, in the current session
Terminal(s) ==
    sessions[s].kind = "hls" /\ ~sessions[s].alive /\ ~sessions[s].tornDown

\* the last handler met a terminal playback condition
TerminalStep ==
    \/ step.op = "HlsError" /\ HasOp(step.trace, "destroy")
    \/ \E k \in 1..Len(step.trace) :
           step.trace[k] = E("onError", 0, "HLS not supported in this browser")

\* C8 as stated: after a terminal playback condition the controller shows its error
\* panel with a message instead of the video surface.
C8_TerminalShowsErrorPanel ==
    (mounted /\ ~RenderPending /\ \E s \in DOMAIN sessions : Terminal(s))
        => (view = "error" /\ Truthy(shownError))

\* C8 as amended: a terminal playback condition calls onError with a message text,
\* and the controller keeps rendering the video surface without an error panel.
C8_TerminalOnlyNotifiesOwner ==
    /\ TerminalStep =>
          /\ \E k \in 1..Len(step.trace) :
                 step.trace[k].op = "onError" /\ Truthy(step.trace[k].arg)
          /\ view = "video"
          /\ shownError = NULL
    /\ \A s \in DOMAIN sessions : Terminal(s) => (view = "video" /\ shownError = NULL)

\* the media-recovery budget is exhausted and nothing is left to render
C8_Witness ==
    /\ step.op = "HlsError" /\ HasOp(step.trace, "destroy")
    /\ sessions[step.id].seen = 4
    /\ ~RenderPending

\* the text the claims expect for a descriptor with a nonzero error code
ExpectedErrorCodeText(m) ==
    IF m = NULL \/ m = "" THEN "Failed to load stream manifest" ELSE m

\* C9: when the manifest of the current stream reference resolves with a nonzero
\* error code, onError is called once with the descriptor's message (the generic
\* text when it is empty), that text is displayed, no video surface is rendered
\* and no engine exists.
C9_ErrorCodeSurfaces ==
    /\ (step.op = "SettleFetch" /\ step.in = "errorCode") =>
          /\ OpCount(step.trace, "onError") = 1
          /\ \E k \in 1..Len(step.trace) :
                 step.trace[k] = E("onError", step.id,
                                   ExpectedErrorCodeText(fetches[step.id].outcome.message))
          /\ manifestError = ExpectedErrorCodeText(fetches[step.id].outcome.message)
    /\ (/\ mounted /\ ~RenderPending
        /\ Cur.settled /\ Cur.outcome.kind = "resolved" /\ Cur.outcome.error_code # 0) =>
          /\ view = "error"
          /\ shownError = ExpectedErrorCodeText(Cur.outcome.message)
          /\ \A s \in DOMAIN sessions : ~sessions[s].alive

\* a descriptor with an error code and no message is on display after a session ended
C9_Witness ==
    /\ mounted /\ ~RenderPending
    /\ Cur.settled /\ Cur.outcome.kind = "resolved" /\ Cur.outcome.error_code # 0
    /\ Cur.outcome.message = NULL
    /\ Len(sessions) = 1

\* the text the claims expect for a rejection
ExpectedRejectionText(o) ==
    IF o.isError THEN o.message ELSE "Failed to fetch stream manifest"

\* C10: when the resolver of the current stream reference rejects, onError is called
\* once with the rejection's message (the fixed text for a non-Error value) and the
\* controller shows its error panel with that same text.
C10_RejectionSurfaces ==
    /\ (step.op = "SettleFetch" /\ step.in \in {"rejectedError", "rejectedOther"}) =>
          /\ OpCount(step.trace, "onError") = 1
          /\ \E k \in 1..Len(step.trace) :
                 step.trace[k] = E("onError", step.id,
                                   ExpectedRejectionText(fetches[step.id].outcome))
    /\ (mounted /\ ~RenderPending /\ Cur.settled /\ Cur.outcome.kind = "rejected") =>
          /\ view = "error"
          /\ shownError = ExpectedRejectionText(Cur.outcome)

\* C11: when isAudioActive changes while a video element is bound, the element's
\* muted property is set to the negation of isAudioActive in the same commit; and
\* the element's volume is never written while isAudioActive is false.
C11_AudioRoutingFollowsProps ==
    [][/\ (isAudioActive' # isAudioActive /\ video'.present) =>
             /\ video'.muted = ~isAudioActive'
             /\ \E k \in 1..Len(step'.trace) :
                    step'.trace[k] = E("setMuted", 0, IF isAudioActive' THEN "false"
                                                                     ELSE "true")
       /\ HasOp(step'.trace, "setVolume") => isAudioActive'
       /\ (~isAudioActive' /\ video.present /\ video'.present) =>
             video'.volume = video.volume]_vars

\* the owner changed the volume of a muted player: the element kept its own
C11_Witness ==
    /\ step.op = "PropsChange"
    /\ ~isAudioActive
    /\ video.present /\ video.muted
    /\ video.volume # volume

\* C12: whenever a video element is bound, and so from the moment a session's
\* element is mounted, it carries the current audio routing: muted is the negation
\* of isAudioActive and, when isAudioActive is true, its volume is the volume prop.
C12_AudioRoutingAppliedToNewSink ==
    video.present =>
        /\ video.muted = ~isAudioActive
        /\ isAudioActive => video.volume = volume

\* C13: onLoad is called exactly once by each MANIFEST_PARSED event (and once by
\* the loadedmetadata event of native playback) and by nothing else: no render,
\* media attach, buffer event, timer or error calls it.
C13_OnLoadOncePerManifestParsed ==
    /\ step.op = "ManifestParsed" => step.trace = <<E("onLoad", step.id, NULL)>>
    /\ step.op = "LoadedMetadata" =>
          /\ step.trace = <<E("onLoad", step.id, NULL)>>
          /\ ~sessions[step.id].metaPending
    /\ step.op \notin {"ManifestParsed", "LoadedMetadata"} => ~HasOp(step.trace, "onLoad")

\* the manifest of the second stream reference was parsed after a media recovery
C13_Witness ==
    /\ step.op = "ManifestParsed"
    /\ step.id = 2
    /\ sessions[2].mediaRecoveryAttempts > 0
    /\ Cur.outcome.error_code = 0

\* C14: every owner callback a handler calls is the closure the owner passed in
\* its latest render.
C14_CallbacksAreLatest ==
    invoked # NULL => invoked = callbacks

\* C15: a re-render with the same stream reference and other callbacks, volume or
\* isAudioActive starts no manifest fetch and, when no manifest URL is waiting to
\* be committed, leaves the session as it is: nothing is destroyed or built and
\* onError is not called.
C15_PropsChangeKeepsSession ==
    [][step'.op = "PropsChange" =>
          /\ fetches' = fetches
          /\ ~HasOp(step'.trace, "getStreamManifest")
          /\ manifestUrl = effUrl =>
                /\ sessions' = sessions
                /\ hlsRef' = hlsRef
                /\ healthCheckIntervalRef' = healthCheckIntervalRef
                /\ videoListenersRef' = videoListenersRef
                /\ ~HasOp(step'.trace, "destroy")
                /\ ~HasOp(step'.trace, "newHls")
                /\ ~HasOp(step'.trace, "onError")
                /\ invoked' = NULL]_vars

\* the owner passed new callbacks to a player whose engine is running
C15_Witness ==
    /\ step.op = "PropsChange"
    /\ callbacks = "render2"
    /\ hlsRef # 0
    /\ sessions[hlsRef].alive
    /\ manifestUrl = effUrl

\* both markers occur among the parts of a URL
HasBothMarkers(url) ==
    \E i, j \in DOMAIN url : url[i] = "startTime=" /\ url[j] = "endTime="

\* C16: the classifier answers ON_DEMAND exactly for the URLs that contain both
\* "startTime=" and "endTime=", and LIVE for every other URL.
C16_ClassifierNeedsBothMarkers ==
    clsResult # "none" =>
        /\ clsResult = "ON_DEMAND" <=> HasBothMarkers(clsUrl)
        /\ clsResult = "LIVE" <=> ~HasBothMarkers(clsUrl)

\* a URL with an end marker and a start parameter that lacks the "=" is LIVE
C16_Witness ==
    /\ clsResult = "LIVE"
    /\ Includes(clsUrl, "endTime=")
    /\ Includes(clsUrl, "startTime")

C18_MasterVolumeInRange ==
    /\ masterVolume \in 0..FullVolume
    /\ audioStep.op \in {"setMasterVolume", "ArrowUp", "ArrowDown"} =>
          /\ audioStep.arg > FullVolume => masterVolume = FullVolume
          /\ audioStep.arg < 0 => masterVolume = 0
          /\ audioStep.arg \in 0..FullVolume => masterVolume = audioStep.arg

\* ArrowDown was pressed at volume 0
C18_Witness ==
    /\ audioStep.op = "ArrowDown"
    /\ audioStep.arg < 0
    /\ masterVolume = 0

\* C19: setViewportCount(c) leaves exactly c viewports and viewportCount c; the
\* viewports below min(previous length, c) keep stream, error and volume, the
\* others are empty; selectedViewport becomes min(previous selectedViewport, c - 1).
C19_SetViewportCountResizes ==
    [][viewportStep'.op = "setViewportCount" =>
          LET c == viewportStep'.arg
              kept == IF Len(viewports) < c THEN Len(viewports) ELSE c
          IN  /\ Len(viewports') = c
              /\ viewportCount' = c
              /\ \A i \in 1..c :
                    /\ viewports'[i].index = i - 1
                    /\ IF i <= kept
                       THEN /\ viewports'[i].stream = viewports[i].stream
                            /\ viewports'[i].error = viewports[i].error
                            /\ viewports'[i].volume = viewports[i].volume
                       ELSE /\ viewports'[i].stream = NULL
                            /\ viewports'[i].error = NULL
                            /\ viewports'[i].volume = 1
              /\ selectedViewport' = (IF selectedViewport < c - 1 THEN selectedViewport
                                                                 ELSE c - 1)]_vars

\* the grid shrank to two viewports that both kept their stream, and the selection
\* was moved to the last of them
C19_Witness ==
    /\ viewportStep.op = "setViewportCount"
    /\ viewportStep.arg = 2
    /\ viewports[1].stream # NULL /\ viewports[1].error # NULL
    /\ viewports[2].stream # NULL
    /\ selectedViewport = 1

\* C20: assignStream(s, i), removeStream(i) and setError(i, e) change viewport i
\* only: the other viewports, selectedViewport and viewportCount stay; assignStream
\* sets the stream and clears the error, removeStream leaves the empty viewport
\* {index i, stream null, error null, volume 1}.
C20_ViewportActionsAreLocal ==
    [][viewportStep'.op \in {"assignStream", "removeStream", "setError"} =>
          LET p == viewportStep'.i + 1
          IN  /\ Len(viewports') = Len(viewports)
              /\ \A j \in DOMAIN viewports : j # p => viewports'[j] = viewports[j]
              /\ selectedViewport' = selectedViewport
              /\ viewportCount' = viewportCount
              /\ viewportStep'.op = "assignStream" =>
                    /\ viewports'[p].stream = viewportStep'.arg
                    /\ viewports'[p].error = NULL
                    /\ viewports'[p].index = viewports[p].index
                    /\ viewports'[p].volume = viewports[p].volume
              /\ viewportStep'.op = "removeStream" =>
                    viewports'[p] = [index |-> p - 1, stream |-> NULL,
                                     error |-> NULL, volume |-> 1]
              /\ viewportStep'.op = "setError" =>
                    /\ viewports'[p].error = viewportStep'.arg
                    /\ viewports'[p].stream = viewports[p].stream]_vars

\* a stream was assigned to the second viewport while the fourth showed an error
C20_Witness ==
    /\ viewportStep.op = "assignStream"
    /\ viewportStep.i = 1
    /\ Len(viewports) = 4
    /\ viewports[2].error = NULL
    /\ viewports[4].stream # NULL /\ viewports[4].error # NULL

\* C21: pressing number key k in 1..4 sets the audio-active viewport index to k - 1
\* when k - 1 is below the viewport count in effect at the time of the key press,
\* and leaves the index unchanged otherwise, after any viewport-count changes.
C21_NumberKeyUsesCurrentCount ==
    [][(audioStep' # audioStep /\ audioStep'.op = "NumberKey") =>
          viewportWithAudioActive' =
              IF audioStep'.arg - 1 < viewportCount
              THEN audioStep'.arg - 1
              ELSE viewportWithAudioActive]_vars

\* the step on which a checkSession call completes
CheckCompletes == checkCall.pc \notin {"idle", "done"} /\ checkCall'.pc = "done"

\* C22: checkSession with a persisted session whose expires_at is not later than
\* the current time invokes the backend logout and leaves the store unauthenticated
\* with session null, without restoring the session to the backend; the same
\* clearing happens when the backend, asked directly, returns an expired session.
C22_ExpiredSessionIsCleared ==
    [][CheckCompletes =>
          LET c == checkCall'
              logout == \E k \in DOMAIN c.calls : c.calls[k] = "logout"
              restore == \E k \in DOMAIN c.calls : c.calls[k] = "set_auth_session"
          IN  /\ (c.persisted # NoSession /\ c.persisted.expires_at <= c.now) =>
                    /\ logout /\ ~restore
                    /\ isAuthenticated' = FALSE
                    /\ session' = NoSession
              /\ (c.direct /\ c.backend # NoSession
                            /\ c.backend.expires_at <= c.checkNow) =>
                    /\ logout
                    /\ isAuthenticated' = FALSE
                    /\ session' = NoSession]_vars

\* a persisted session that expires at the very moment of the check was cleared
C22_Witness ==
    /\ checkCall.pc = "done"
    /\ checkCall.persisted # NoSession
    /\ checkCall.persisted.expires_at = checkCall.now
    /\ checkCall.calls = <<"logout">>
    /\ ~checkCall.caught
    /\ ~isAuthenticated /\ session = NoSession

\* C23: if a backend call made by checkSession rejects, checkSession completes
\* (the rejection is caught) and the store is unauthenticated with session null,
\* whatever the state was before.
C23_RejectionClearsStore ==
    [][(checkCall.pc \notin {"idle", "done"} /\ checkCall' # checkCall
                                             /\ ~authStep'.outcome.ok) =>
          /\ checkCall'.pc = "done"
          /\ checkCall'.caught
          /\ isAuthenticated' = FALSE
          /\ session' = NoSession]_vars

\* the verification after a successful restore rejected
C23_Witness ==
    /\ checkCall.pc = "done"
    /\ checkCall.caught
    /\ checkCall.calls = <<"set_auth_session", "check_auth_status">>
    /\ checkCall.persisted # NoSession
    /\ ~isAuthenticated /\ session = NoSession

\* C24: fetchStreams sets isLoading true and error null when it starts; on success
\* it stores the returned streams, sets lastUpdated and isLoading false, with error
\* null; on failure it sets error to the Error's message (or "Failed to fetch
\* streams"), sets isLoading false and leaves streams and lastUpdated unchanged.
C24_FetchStreamsOutcome ==
    [][/\ pendingFetches' > pendingFetches => (isLoading' /\ error' = NULL)
       /\ (pendingFetches' < pendingFetches /\ streamStep'.op = "resolve") =>
              /\ streams' = streamStep'.arg[1]
              /\ lastUpdated' = streamStep'.arg[2]
              /\ ~isLoading'
              /\ error' = NULL
       /\ (pendingFetches' < pendingFetches /\ streamStep'.op = "reject") =>
              /\ error' = (IF streamStep'.arg.isError THEN streamStep'.arg.message
                                                     ELSE "Failed to fetch streams")
              /\ ~isLoading'
              /\ streams' = streams
              /\ lastUpdated' = lastUpdated]_vars

\* C25: StreamSelector fetches the stream list on mount and then on every tick of
\* its interval if and only if a session with cookies is available: no fetch is
\* made while the session is null, one is made as soon as a session appears, and
\* after unmount no interval is left and no fetchStreams call is made.
C25_PollsIffSession ==
    /\ (pollInterval # NoSession) =
           (selectorMounted /\ selectorSession # NoSession
                            /\ selectorSession.cookies # NULL)
    /\ pollInterval # NoSession => pollInterval = selectorSession
    /\ streamStep.op \in {"mount", "render"} =>
           (streamStep.calls = 1) =
               (selectorSession # NoSession /\ selectorSession.cookies # NULL)
    /\ streamStep.calls > 0 => streamStep.op \in {"mount", "render", "interval"}
    /\ streamStep.op = "interval" => pollInterval # NoSession
    /\ ~selectorMounted => streamStep.calls = 0

\* a session appeared where there was none, and was fetched for at once
C25_Witness ==
    /\ streamStep.op = "render"
    /\ streamStep.calls = 1
    /\ selectorSession # NoSession
    /\ pollInterval = selectorSession
    /\ streams # "none"

\* the positions of the call op(s) in the trace of the last handler
CallsAt(op, s) ==
    {k \in DOMAIN step.trace : step.trace[k].op = op /\ step.trace[k].id = s}

\* C26: teardown of a session performs its steps in this order: stop the
\* health-check timer, then cancel the VOD-workaround timers, then remove the
\* video-sink listeners, then destroy the engine instance.
C26_TeardownOrder ==
    step.op \in {"Render", "StreamChange", "PropsChange", "Unmount"} =>
        \A s \in DOMAIN sessions :
            /\ \A a \in CallsAt("clearInterval", s), b \in CallsAt("clearTimeout", s) : a < b
            /\ \A a \in CallsAt("clearInterval", s),
                  b \in CallsAt("removeVideoListeners", s) : a < b
            /\ \A a \in CallsAt("clearTimeout", s),
                  b \in CallsAt("removeVideoListeners", s) : a < b
            /\ \A a \in CallsAt("removeVideoListeners", s), b \in CallsAt("destroy", s) : a < b

\* C27: on a stream-reference change while a session is active, the engine of the
\* old session is destroyed, its timers are cleared and its listeners removed
\* before the manifest resolution for the new reference is started.
C27_TeardownBeforeResolution ==
    (step.op = "StreamChange" /\ HasOp(step.trace, "getStreamManifest")) =>
        \A s \in DOMAIN sessions :
            sessions[s].kind = "hls" =>
                /\ ~sessions[s].alive
                /\ ~sessions[s].interval
                /\ ~sessions[s].listeners

\* C28: an engine instance is never constructed while no manifest URL is stored,
\* and for every session the listeners for MEDIA_ATTACHED, MANIFEST_PARSED, ERROR
\* and (for an ON_DEMAND session) BUFFER_APPENDED are registered before
\* loadSource() and attachMedia() are called; an engine event is handled only for
\* a session whose construction has completed.
C28_ListenersBeforeSource ==
    /\ \A s \in DOMAIN sessions :
          CallsAt("newHls", s) # {} =>
              /\ effUrl # 0
              /\ Cardinality(CallsAt("loadSource", s)) = 1
              /\ Cardinality(CallsAt("attachMedia", s)) = 1
              /\ \A ev \in {"MEDIA_ATTACHED", "MANIFEST_PARSED", "ERROR"}
                         \cup (IF sessions[s].isVod THEN {"BUFFER_APPENDED"} ELSE {}) :
                    \E k \in CallsAt("on", s) :
                        /\ step.trace[k].arg = ev
                        /\ \A n \in CallsAt("newHls", s) : n < k
                        /\ \A l \in CallsAt("loadSource", s) \cup CallsAt("attachMedia", s) :
                               k < l
              /\ \A k \in CallsAt("on", s),
                    l \in CallsAt("loadSource", s) \cup CallsAt("attachMedia", s) : k < l
    /\ step.op \in {"MediaAttached", "ManifestParsed", "BufferAppended", "HlsError"} =>
          /\ step.id \in DOMAIN sessions
          /\ sessions[step.id].kind = "hls"
          /\ CallsAt("newHls", step.id) = {}

\* an ON_DEMAND session was built by a render
C28_Witness ==
    /\ step.op = "Render"
    /\ hlsRef # 0
    /\ CallsAt("newHls", hlsRef) # {}
    /\ sessions[hlsRef].isVod
    /\ sessions[hlsRef].attachPending

\* the manifest URL of the current reference is stored but not yet committed
UrlAwaitsCommit == mounted /\ manifestUrl # 0 /\ manifestUrl # effUrl

\* C29: when a manifest resolves with error code 0 for the current stream
\* reference, the URL is stored and onManifestLoaded is called; unless the
\* reference changes or the player unmounts first, a commit for that URL follows,
\* and every commit of a new URL finds the video element mounted and performs
\* initializePlayer (engine, native source, or the unsupported-browser error).
C29_ReadyLeadsToInitialization ==
    /\ [][
          /\ (step'.op = "SettleFetch" /\ step'.in = "ok" /\ step' # step) =>
                /\ manifestUrl' # 0
                /\ HasOp(step'.trace, "setManifestUrl")
                /\ HasOp(step'.trace, "onManifestLoaded")
                /\ invoked' = callbackRefs
          /\ (effUrl' # effUrl /\ effUrl' # 0) =>
                /\ view' = "video"
                /\ video'.present
                /\ \/ HasOp(step'.trace, "newHls") /\ HasOp(step'.trace, "attachMedia")
                   \/ HasOp(step'.trace, "setVideoSrc")
                   \/ platform = "none" /\ HasOp(step'.trace, "onError")
       ]_vars
    /\ (UrlAwaitsCommit ~> (~mounted \/ manifestUrl = 0 \/ effUrl = manifestUrl))

\* the engine was built on the element mounted by the same commit
C29_Witness ==
    /\ step.op = "Render"
    /\ HasOp(step.trace, "newHls")
    /\ effUrl # 0 /\ effUrl = manifestUrl
    /\ video.present
    /\ Len(sessions) = 1

\* C30: the VOD workaround runs only for ON_DEMAND sessions. A BUFFER_APPENDED
\* event does nothing while no buffered range exists, the buffered amount is below
\* 10 seconds or the workaround is already started; otherwise it marks the
\* workaround started and calls stopLoad() once; between two MEDIA_ATTACHED events
\* stopLoad() is called at most once.
C30_VodWorkaroundStartsOnce ==
    [][/\ \A s \in DOMAIN sessions' :
             /\ sessions'[s].stopLoads <= 1
             /\ sessions'[s].stopLoads > 0 => sessions'[s].isVod
       /\ HasOp(step'.trace, "stopLoad") => step'.op = "BufferAppended"
       /\ step'.op = "BufferAppended" =>
             LET s == step'.id
                 b == step'.buffered
             IN  /\ sessions[s].isVod
                 /\ IF /\ b.length > 0
                        /\ b.end - b.start >= 10
                        /\ ~sessions[s].vodStarted
                    THEN /\ sessions'[s].vodStarted
                         /\ OpCount(step'.trace, "stopLoad") = 1
                         /\ sessions'[s].stopLoads = sessions[s].stopLoads + 1
                    ELSE /\ sessions' = sessions
                         /\ step'.trace = <<>>]_vars

\* the workaround started a second time, after a fatal media error was answered
\* by recoverMediaError() and MEDIA_ATTACHED reset it
C30_Witness ==
    /\ step.op = "BufferAppended"
    /\ step.in = "start"
    /\ vodRuns = 2
    /\ sessions[1].stopLoads = 1
    /\ sessions[1].mediaRecoveryAttempts >= 1

\* C31: in a VOD workaround run the steps occur in this order: stopLoad(); then the
\* seek to bufferStart + 0.1 (or the current position if no buffered range
\* remains); then, on seeked, play(), with startLoad(currentTime) called only once
\* play() has settled. No seek happens before stopLoad() and no startLoad() of the
\* workaround happens before the seek of the run.
C31_VodRunOrder ==
    [][/\ HasOp(step'.trace, "seek") =>
             /\ step'.op = "VodTimeoutFires"
             /\ sessions[step'.id].stopLoads = 1
             /\ sessions[step'.id].vodStarted
             /\ step'.trace[1] = E("seek", step'.id,
                                    IF step'.buffered.length > 0 THEN "bufferStart+0.1"
                                                                 ELSE "currentTime")
       /\ step'.op = "Seeked" =>
             /\ HasOp(step'.trace, "play")
             /\ ~HasOp(step'.trace, "startLoad")
       /\ step'.op = "PlaySettles" =>
             /\ sessions[step'.id].playPending > 0
             /\ step'.trace = <<E("startLoad", step'.id, "currentTime")>>
       /\ (step'.op \in {"PlaySettles", "VodFallbackFires"}
              /\ HasOp(step'.trace, "startLoad")
              /\ sessions[step'.id].vodStarted) =>
             sessions[step'.id].sought]_vars

\* C32: when the 2-second fallback finds playback not started it attempts play()
\* and calls startLoad() whatever play() does; it does so only when seek completion
\* was not confirmed (the seeked listener of the run is still registered and the
\* run has not resumed loading), so a run never resumes loading twice.
C32_FallbackOnlyWithoutSeeked ==
    [][/\ (step'.op = "VodFallbackFires" /\ step'.in = "paused") =>
             /\ HasOp(step'.trace, "play")
             /\ HasOp(step'.trace, "startLoad")
             /\ sessions[step'.id].onSeeked > 0
             /\ sessions[step'.id].resumed = 0
       /\ \A s \in DOMAIN sessions' : sessions'[s].resumed <= 1]_vars

\* a timer of the VOD workaround acts: the settle timer seeks, or the fallback
\* plays and resumes loading
TimerActs(st) ==
    \/ st.op = "VodTimeoutFires" /\ st.in = "seek"
    \/ st.op = "VodFallbackFires" /\ st.in = "paused"

\* C33 (as the code has it): every MEDIA_ATTACHED handler resets the started flag
\* and cancels every pending workaround timer in the same handler, so a settle or
\* fallback timer is pending, and acts, only in a run started after the last
\* media-attach event, and after the event the workaround can start again.
C33_AttachCancelsTimers ==
    [][/\ step'.op = "MediaAttached" =>
             /\ ~sessions'[step'.id].vodStarted
             /\ ~sessions'[step'.id].vodTimeoutId
             /\ ~sessions'[step'.id].vodFallbackId
             /\ sessions[step'.id].vodTimeoutId =>
                    HasOp(step'.trace, "clearTimeout")
             /\ sessions[step'.id].vodFallbackId =>
                    E("clearTimeout", step'.id, "vodFallbackId") \in
                        {step'.trace[i] : i \in DOMAIN step'.trace}
             /\ \A b \in Buffered : b.length > 0 /\ b.end - b.start >= MinVodBuffer =>
                    VodShouldStart(sessions'[step'.id].vodStarted, b)
       /\ \A s \in DOMAIN sessions' :
             (sessions'[s].vodTimeoutId \/ sessions'[s].vodFallbackId) =>
                 sessions'[s].vodStarted /\ sessions'[s].stopLoads = 1
       /\ TimerActs(step') =>
             sessions[step'.id].vodStarted /\ sessions[step'.id].stopLoads = 1]_vars

\* a re-attach after a media-error recovery cancelled the pending fallback timer
C33_Witness ==
    /\ step.op = "MediaAttached"
    /\ mediaErrors >= 1
    /\ HasOp(step.trace, "clearTimeout")
    /\ ~sessions[step.id].vodStarted

\* C33 as stated: the handler cancels the pending timers before it resets the
\* started flag
C33_CancelsBeforeReset ==
    step.op = "MediaAttached" =>
        \A a \in CallsAt("clearTimeout", step.id),
           b \in CallsAt("resetVodStarted", step.id) : a < b

\* C34: the health monitor runs only for LIVE sessions: a check made while the
\* media is paused or ended changes nothing; otherwise an unchanged playback
\* position increments the stall counter and a changed position resets the counter
\* to 0 and records the new position. The monitor never invokes onError, a recovery
\* call or destroy.
C34_HealthMonitorIsDiagnostic ==
    [][/\ \A s \in DOMAIN sessions' :
             sessions'[s].interval => sessions'[s].kind = "hls" /\ ~sessions'[s].isVod
       /\ step'.op = "HealthCheck" =>
             /\ ~sessions[step'.id].isVod
             /\ step'.in = "idle" => healthRefs' = healthRefs
             /\ (step'.in = "check" /\ step'.time = lastPlaybackTimeRef) =>
                    /\ frozenCheckCountRef' = frozenCheckCountRef + 1
                    /\ lastPlaybackTimeRef' = lastPlaybackTimeRef
             /\ (step'.in = "check" /\ step'.time # lastPlaybackTimeRef) =>
                    /\ frozenCheckCountRef' = 0
                    /\ lastPlaybackTimeRef' = step'.time
             /\ step'.trace = <<>>
             /\ invoked' = NULL
             /\ UNCHANGED <<sessions, reactState, mediaErrors, hlsRef>>]_vars

\* a check found the position unchanged and counted it, with a position recorded
\* by an earlier check
C34_Witness ==
    /\ step.op = "HealthCheck"
    /\ step.in = "check"
    /\ frozenCheckCountRef = 1
    /\ lastPlaybackTimeRef = 1

\* a workaround run of session s has stopped loading and has not resumed it
LoadStopped(s) ==
    /\ s \in DOMAIN sessions
    /\ sessions[s].vodStarted
    /\ sessions[s].resumed = 0

\* the run of session s was superseded by a media-attach event or a teardown
Superseded(s) ==
    \/ s \notin DOMAIN sessions
    \/ ~sessions[s].vodStarted
    \/ sessions[s].attachPending
    \/ sessions[s].tornDown
    \/ ~sessions[s].alive

\* C35: in every VOD workaround run that is not superseded by a media-attach
\* event or a teardown, once stopLoad() has been called, startLoad() is eventually
\* called, assuming timers fire: also when the seeked event never arrives and the
\* video element reports not paused.
C35_StopLoadLeadsToStartLoad ==
    LoadStopped(1) ~> (Superseded(1) \/ sessions[1].resumed > 0)

\* the current run of session s registered a seeked listener: it has sought, and
\* neither a media-attach reset nor a teardown came since
RunIsCurrent(s) ==
    /\ sessions[s].vodStarted
    /\ sessions[s].sought
    /\ sessions[s].alive
    /\ ~sessions[s].tornDown

\* C36: after a media-attach reset or a session teardown no handler of the
\* superseded workaround run acts on the video element or the engine: a seeked
\* listener registered by that run does not later call play() or startLoad().
C36_NoStaleSeekedListener ==
    [][/\ (step'.op = "Seeked" /\ HasOp(step'.trace, "play")) =>
             RunIsCurrent(step'.id) /\ sessions[step'.id].onSeeked = 1
       /\ (step'.op = "PlaySettles" /\ HasOp(step'.trace, "startLoad")) =>
             RunIsCurrent(step'.id)]_vars

\* C37: destroy() is invoked at most once on each engine instance over its whole
\* life: after a terminal playback error destroyed the engine, a later stream
\* change or unmount does not invoke destroy() on that instance again.
C37_DestroyAtMostOnce ==
    \A s \in DOMAIN sessions : sessions[s].destroyCalls <= 1

\* the rendered viewports VideoGrid marks as the audio target:
\* isAudioActive = (viewportWithAudioActive === index) over the first
\* viewportCount viewports
AudioActiveViewports ==
    {i \in 0..(viewportCount - 1) : viewportWithAudioActive = i}

\* C38: after any sequence of viewport-count changes and audio-focus changes the
\* audio-active viewport index is below the current viewport count, so exactly one
\* rendered viewport is the active audio target.
C38_AudioIndexBelowCount ==
    /\ viewportWithAudioActive < viewportCount
    /\ Cardinality(AudioActiveViewports) = 1

\* C39: in every reachable state of the auth store isAuthenticated is true if and
\* only if session is non-null, over any sequence of login, logout and
\* checkSession calls, also when a backend call rejects; a rejected login or
\* logout leaves the state unchanged.
C39_AuthenticatedIffSession ==
    /\ [](isAuthenticated <=> session # NoSession)
    /\ [][(authStep'.op \in {"login", "logout"} /\ authStep'.outcome = Reject) =>
             UNCHANGED <<isAuthenticated, session>>]_vars

\* a rejected logout left an authenticated store as it was
C39_Witness ==
    /\ authStep.op = "logout"
    /\ authStep.outcome = Reject
    /\ isAuthenticated
    /\ session # NoSession

====
